---- MODULE Spec2Model ----
(***************************************************************************)
(* Model of the Maya render adaptor                                        *)
(* (src/src/deadline/maya_adaptor/MayaAdaptor/adaptor.py).                 *)
(*                                                                         *)
(* Three threads of control are modelled:                                  *)
(*   - the controller thread, which runs on_start / on_run / on_stop /     *)
(*     on_cleanup one at a time; `pc` is its position.  Every read of a    *)
(*     field another thread writes is a step of its own, so the condition  *)
(*     of a busy-wait loop is evaluated operand by operand, left to right, *)
(*     with short-circuiting, as Python evaluates it;                      *)
(*   - the worker process (mayapy) with its output readers: it pops        *)
(*     actions through the server, writes lines that the regex callbacks   *)
(*     classify, and may exit;                                             *)
(*   - on_cancel, which may run at any moment.                             *)
(*                                                                         *)
(* Time: `timeout_left` is timeout_time - time.time() of the timer the     *)
(* controller created last, in ticks, cut off at 0.  Tick lets time pass.  *)
(***************************************************************************)
EXTENDS Integers, Sequences, FiniteSets, TLC

VARIABLES
    init_data,          \* the initialization payload given to the constructor
    sys_platform,       \* sys.platform of the host the adaptor runs on
    mapping_rules,      \* self.path_mapping_rules: the session's path-mapping rules
    pc,                 \* position of the controller thread
    phase,              \* "new" | "started" | "cleaned" | "cleaned_again":
                        \*   which lifecycle calls were made
    runs,               \* number of on_run calls that passed the guard and the validation
    server_thread,      \* _server_thread: "none" | "alive" | "dead"
    server_path,        \* _server is not None and _server.server_path is not None
    server_shutdown,    \* _server.shutdown() was requested
    maya_client,        \* _maya_client: "none" | "running" | "exited"
    returncode,         \* _maya_client.returncode (NoCode while none/running)
    action_queue,       \* _action_queue: sequence of action names
    is_rendering,       \* _is_rendering
    exc_info,           \* _exc_info
    performing_cleanup, \* _performing_cleanup
    arnold_temp_dir,    \* _arnold_temp_dir is not None
    arnold_dir_on_disk, \* the temporary directory holding the side file exists
    regex_callbacks,    \* the callback list the output handler was built with
    pathmap_writes,     \* times the side file was written and ARNOLD_PATHMAP set
    arnold_pathmap_file, \* the document last written to the side file
    progress,           \* last progress passed to update_status
    timeout_left,       \* ticks until the deadline of the current timer
    loop_exit,          \* which operand ended the last busy-wait loop
    result,             \* how the last lifecycle call ended
    call_exc,           \* observer: an exception was recorded when the current call began
    drained_in_time,    \* observer: during on_start the worker emptied the queue
                        \*           before the start deadline
    enqueued,           \* observer: the actions enqueued without front=True, in call order
    delivered,          \* observer: the actions the worker was handed, in order
    terminate_calls,    \* observer: terminate() calls made by the current lifecycle call
    run_data,           \* the argument of the on_run call in progress:
                        \*   "none" | "valid" | "invalid" (against the run-data schema)
    second_adaptor,     \* a second MayaAdaptor has been constructed in this process
    completed,          \* observer: completion markers the worker has written
    env_server_path,    \* os.environ["MAYA_ADAPTOR_SERVER_PATH"] is set
    client_proc,        \* a client process on its own: its environment, the
                        \*   start_render it is handed, how far it got, what it did
    dir_map             \* a DirectoryMappingDict call: the host's list, the result

adaptor_vars ==
    <<init_data, sys_platform, mapping_rules, arnold_pathmap_file,
      regex_callbacks, pc, phase, runs, server_thread, server_path, server_shutdown,
      maya_client, returncode, action_queue, is_rendering, exc_info,
      performing_cleanup, arnold_temp_dir, arnold_dir_on_disk, pathmap_writes,
      progress, timeout_left, loop_exit, result, call_exc, drained_in_time, enqueued,
      delivered, terminate_calls, run_data, second_adaptor, completed, env_server_path>>

vars == <<init_data, sys_platform, mapping_rules, arnold_pathmap_file,
          regex_callbacks, pc, phase, runs, server_thread, server_path, server_shutdown,
          maya_client, returncode, action_queue, is_rendering, exc_info,
          performing_cleanup, arnold_temp_dir, arnold_dir_on_disk, pathmap_writes,
          progress, timeout_left, loop_exit, result, call_exc, drained_in_time, enqueued, delivered,
          terminate_calls, run_data, second_adaptor, completed, env_server_path, client_proc, dir_map>>

----------------------------------------------------------------------------
(* Bounds of the model *)

MaxRuns == 2
StartTimeoutTicks == 2
ServerStartTimeoutTicks == 1
EndTimeoutTicks == 1
ServerEndTimeoutTicks == 1
MaxCrashCode == 1

(* Program constants *)

MAYA_START_TIMEOUT_SECONDS == 86400

NoCode == -1
KilledCode == -9
NoProgress == -1

----------------------------------------------------------------------------
(* Initialization payload *)

FIRST_MAYA_ACTIONS == <<"scene_file", "project_path">>

\* a set: the order in which Python iterates over it is not fixed
MAYA_INIT_KEYS == {"camera", "image_height", "image_width", "output_file_path",
                   "output_file_prefix", "render_layer", "render_setup_include_lights",
                   "error_on_arnold_license_fail"}

Payload(valid, renderer, strict, arnold_fail, keys) ==
    [ valid |-> valid,
      renderer |-> renderer,
      strict_error_checking |-> strict,
      error_on_arnold_license_fail |-> arnold_fail,
      keys |-> keys,
      missing |-> {} ]

\* the payloads the adaptor is constructed with: one that fails validation,
\* and valid ones with and without the error-checking flags; keys holds the
\* optional keys present besides the two flags (a flag is present when set),
\* missing the keys among scene_file and project_path that are absent
\* a payload that sets the Arnold license flag for another renderer: the
\* recognized keys of the initialization payload do not depend on the renderer
ArnoldFlagOtherRenderer == Payload(TRUE, "mayaSoftware", FALSE, TRUE, {})

InitDatas ==
    { Payload(FALSE, "arnold", FALSE, FALSE, {}),
      Payload(TRUE, "arnold", TRUE, TRUE, {"camera", "version"}),
      Payload(TRUE, "vray", FALSE, FALSE, {}),
      ArnoldFlagOtherRenderer }

\* payloads without scene_file or project_path that reach _populate_action_queue
NoProjectPath ==
    [Payload(TRUE, "vray", FALSE, FALSE, {"camera"}) EXCEPT !.missing = {"project_path"}]

NoSceneFile ==
    [Payload(TRUE, "vray", FALSE, FALSE, {"camera"}) EXCEPT !.missing = {"scene_file"}]

\* the keys of the init_data dictionary
InitKeys(d) ==
    ({"renderer", "scene_file", "project_path"} \ d.missing)
    \cup d.keys
    \cup (IF d.strict_error_checking THEN {"strict_error_checking"} ELSE {})
    \cup (IF d.error_on_arnold_license_fail
          THEN {"error_on_arnold_license_fail"} ELSE {})

\* self.init_data[key]
init_value(d, key) ==
    CASE key = "renderer" -> d.renderer
      [] key = "strict_error_checking" -> d.strict_error_checking
      [] key = "error_on_arnold_license_fail" -> d.error_on_arnold_license_fail
      [] OTHER -> <<"init_data", key>>

----------------------------------------------------------------------------
(* Output lines and the regex callbacks *)

LineComplete == "MayaClient: Finished Rendering Frame 1"
LineProgress == "[PROGRESS] 50 percent"
LineError    == "Error: render failed"
LineWarnProg == "Warning: 50% done"
LineVray     == "error: Could not obtain a license"
LineMayaLicense == "RuntimeError: Error encountered when initializing Maya - Please check for sufficient disk space and necessary write permissions of MAYA_APP_DIR."
LineArnoldAbort == "aborting render because the abort_on_license_fail option was enabled"

WorkerLines == {LineComplete, LineError, LineWarnProg, LineVray}

\* the lines the regex handler is tried on by itself
HandlerLines == WorkerLines \cup {LineProgress, LineMayaLicense, LineArnoldAbort}

NoExc == [handler |-> "none", match |-> "none"]

RuntimeErrorOf(h, line) == [handler |-> h, match |-> line]

\* the callbacks a line matches (re.search of each callback's patterns)
Matches(cb, line) ==
    CASE cb = "complete" -> line = LineComplete
      [] cb = "progress" -> line \in {LineProgress, LineWarnProg}
      [] cb = "error"    -> line \in {LineError, LineWarnProg, LineMayaLicense}
      [] cb = "arnold_abort" -> line = LineArnoldAbort
      [] cb = "vray_license" -> line = LineVray
      [] cb = "license" -> line = LineMayaLicense
      [] OTHER -> FALSE

ProgressOf(line) == 50

\* (variant: the generic error callback is registered whatever the flag)
get_regex_callbacks_always_strict(d) ==
    <<"complete", "progress">>
    \o <<"error">>
    \o (IF d.error_on_arnold_license_fail THEN <<"arnold_abort">> ELSE <<>>)
    \o <<"renderman_license", "vray_license", "license", "version">>

get_regex_callbacks(d) ==
    <<"complete", "progress">>
    \o (IF d.strict_error_checking THEN <<"error">> ELSE <<>>)
    \o (IF d.error_on_arnold_license_fail THEN <<"arnold_abort">> ELSE <<>>)
    \o <<"renderman_license", "vray_license", "license", "version">>


----------------------------------------------------------------------------
(* _has_exception raises the pending exception unless cleanup is under way; *)
(* otherwise it returns False.                                              *)

\* (variant: the cleanup flag is tested with the wrong polarity)
has_exception_raises_cleanup_inverted(e, cleanup) == e # NoExc /\ cleanup

\* (variant: the cleanup flag is not tested)
has_exception_raises_during_cleanup(e, cleanup) == e # NoExc

has_exception_raises(e, cleanup) == e # NoExc /\ ~cleanup

\* one read of the property: it raises exc, or returns value
\* (variant: True is returned when nothing is raised)
has_exception_returns_true(e, cleanup) ==
    IF has_exception_raises(e, cleanup)
    THEN [raised |-> TRUE, exc |-> e, value |-> FALSE]
    ELSE [raised |-> FALSE, exc |-> NoExc, value |-> TRUE]

has_exception(e, cleanup) ==
    IF has_exception_raises(e, cleanup)
    THEN [raised |-> TRUE, exc |-> e, value |-> FALSE]
    ELSE [raised |-> FALSE, exc |-> NoExc, value |-> FALSE]

(* _maya_is_running: the client exists and its process is running *)
maya_is_running(client) == client = "running"

(* the lambda of _get_timer: True until the deadline *)
is_not_timed_out(left) == left > 0

(* the test of on_start, in its loop and after it: actions are left *)
\* (variant: the comparison lets the empty queue through)
init_incomplete_off_by_one(q) == Len(q) >= 0

init_incomplete(q) == Len(q) > 0

(* what on_start raises when actions are left in the queue after its wait *)
\* (variant: the two branches are exchanged)
start_failure_swapped(left) ==
    IF is_not_timed_out(left) THEN "TimeoutError" ELSE "InitRuntimeError"

start_failure(left) ==
    IF is_not_timed_out(left) THEN "InitRuntimeError" ELSE "TimeoutError"

(* the guard and the validation at the top of on_run *)
\* (variant: the run data are validated before the guard)
on_run_guard_validates_first(client, run_data_valid) ==
    IF ~run_data_valid THEN "ValidationError"
    ELSE IF ~maya_is_running(client) THEN "MayaNotRunningError"
    ELSE "go"

\* (variant: the run data are not validated)
on_run_guard_without_validation(client, run_data_valid) ==
    IF ~maya_is_running(client) THEN "MayaNotRunningError"
    ELSE "go"

on_run_guard(client, run_data_valid) ==
    IF ~maya_is_running(client) THEN "MayaNotRunningError"
    ELSE IF ~run_data_valid THEN "ValidationError"
    ELSE "go"

(* the check of on_run after its wait: the client exists and is not running *)
\* (variant: the check is skipped)
exited_early_never(client) == FALSE

\* (variant: the test of the client's existence is negated)
exited_early_no_client(client) == ~maya_is_running(client) /\ client = "none"

exited_early(client) == ~maya_is_running(client) /\ client # "none"

(* The handlers act on the fields they touch:                              *)
(*   s = [is_rendering, progress, exc_info, raised]                         *)
(* raised: the handler raised instead of returning (_check_for_exception).  *)

\* (variant: progress is reported but the flag is not cleared)
handle_complete_keeps_flag(s, cleanup) ==
    IF has_exception_raises(s.exc_info, cleanup)
    THEN [s EXCEPT !.raised = TRUE]
    ELSE [s EXCEPT !.progress = 100]

handle_complete(s, cleanup) ==
    IF has_exception_raises(s.exc_info, cleanup)
    THEN [s EXCEPT !.raised = TRUE]
    ELSE [s EXCEPT !.is_rendering = FALSE, !.progress = 100]

\* (variant: the handler lacks the _check_for_exception decorator)
handle_progress_unguarded(s, line, cleanup) ==
    [s EXCEPT !.progress = ProgressOf(line)]

handle_progress(s, line, cleanup) ==
    IF has_exception_raises(s.exc_info, cleanup)
    THEN [s EXCEPT !.raised = TRUE]
    ELSE [s EXCEPT !.progress = ProgressOf(line)]

handle_error(s, line) ==
    [s EXCEPT !.exc_info = RuntimeErrorOf("_handle_error", line)]

handle_license_error(s, line) ==
    [s EXCEPT !.exc_info = RuntimeErrorOf("_handle_license_error", line)]

handle_vray_license_error(s, line) ==
    [s EXCEPT !.exc_info = RuntimeErrorOf("_handle_vray_license_error", line)]

handle_renderman_license_error(s, line) ==
    [s EXCEPT !.exc_info = RuntimeErrorOf("_handle_renderman_license_error", line)]

RunCallback(cb, s, line, cleanup) ==
    CASE cb = "complete" -> handle_complete(s, cleanup)
      [] cb = "progress" -> handle_progress(s, line, cleanup)
      [] cb = "error" -> handle_error(s, line)
      [] cb = "arnold_abort" -> handle_error(s, line)
      [] cb = "renderman_license" -> handle_renderman_license_error(s, line)
      [] cb = "vray_license" -> handle_vray_license_error(s, line)
      [] cb = "license" -> handle_license_error(s, line)
      [] OTHER -> s

(* One output line goes through every registered callback in registration  *)
(* order.  A guarded handler that finds an exception pending raises it     *)
(* inside the output reader; whether the reader then goes on to the        *)
(* callbacks registered after it is the runtime library's business, so     *)
(* both outcomes are allowed (continue).                                   *)
RECURSIVE EmitFrom(_, _, _, _, _, _)
\* (variant: the handler stops at the first callback that matches)
EmitFrom_first_match_only(cbs, i, s, line, cleanup, continue) ==
    IF i > Len(cbs) THEN s
    ELSE IF ~Matches(cbs[i], line) THEN EmitFrom(cbs, i + 1, s, line, cleanup, continue)
    ELSE RunCallback(cbs[i], s, line, cleanup)

EmitFrom(cbs, i, s, line, cleanup, continue) ==
    IF i > Len(cbs) THEN s
    ELSE IF ~Matches(cbs[i], line) THEN EmitFrom(cbs, i + 1, s, line, cleanup, continue)
    ELSE LET t == RunCallback(cbs[i], s, line, cleanup) IN
         IF t.raised /\ ~continue THEN t
         ELSE EmitFrom(cbs, i + 1, t, line, cleanup, continue)

----------------------------------------------------------------------------
(* The action queue *)

enqueue_action(q, a, front) == IF front THEN <<a>> \o q ELSE Append(q, a)

(* on_cleanup: self._action_queue.enqueue_action(Action("close"), front=True) *)
\* (variant: front=True is left out)
enqueue_close_at_back(q) == enqueue_action(q, "close", FALSE)

enqueue_close(q) == enqueue_action(q, "close", TRUE)

(* on_run: self._action_queue.enqueue_action(Action("start_render", run_data)) *)
\* (variant: the action is pushed with front=True)
enqueue_start_render_at_front(q) == enqueue_action(q, "start_render", TRUE)

enqueue_start_render(q) == enqueue_action(q, "start_render", FALSE)

\* the orders in which the elements of a set can be iterated over
Orders(S) ==
    { f \in [1..Cardinality(S) -> S] :
        \A i, j \in 1..Cardinality(S) : f[i] = f[j] => i = j }

(* for action_name in _MAYA_INIT_KEYS: if action_name in self.init_data     *)
(* the names that pass the test, in each order the iteration can take       *)
\* (variant: every optional key of the init data is forwarded)
init_key_orders_forward_every_key(d) ==
    Orders(InitKeys(d) \ {"renderer", "scene_file", "project_path"})

init_key_orders(d) == Orders({k \in MAYA_INIT_KEYS : k \in InitKeys(d)})

(* _action_from_action_item: Action(item_name, {item_name: init_data[item_name]}) *)
action_from_action_item(d, item_name) ==
    [name |-> item_name, data |-> [k \in {item_name} |-> init_value(d, item_name)]]

(* The path-mapping rules a session is constructed with: none, or three    *)
(* rules of which two share their source path.  A path is the sequence of  *)
(* its characters.                                                          *)
Rule(os, src, dst) == [source_os |-> os, source_path |-> src, destination_path |-> dst]

path_mapping_rules(d) ==
    IF d.valid /\ d.renderer = "arnold"
    THEN << Rule("windows", <<"Z", ":", "\\", "p">>, <<"/", "m", "/", "p">>),
            Rule("linux", <<"/", "p">>, <<"/", "m", "/", "a">>),
            Rule("macos", <<"/", "p">>, <<"/", "m", "/", "b">>) >>
    ELSE <<>>

\* the data of the path_mapping action:
\* {rule.source_path: rule.destination_path for rule in rules}
path_mapping_action_data(rules) ==
    LET sources == { rules[i].source_path : i \in 1..Len(rules) }
        last(src) == CHOOSE i \in 1..Len(rules) :
                        /\ rules[i].source_path = src
                        /\ \A j \in (i + 1)..Len(rules) : rules[j].source_path # src
    IN [path_mapping_rules |-> [src \in sources |-> rules[last(src)].destination_path]]

(* _populate_action_queue: renderer, path_mapping, the first actions, then *)
(* the recognized keys present in the init data.                            *)
\* (variant: the first actions are enqueued before renderer and path_mapping)
populate_action_queue_first_actions_first(q, d, init_keys) ==
    q \o FIRST_MAYA_ACTIONS \o <<"renderer", "path_mapping">> \o init_keys

(* for action_name in _FIRST_MAYA_ACTIONS: self.init_data[action_name] is   *)
(* read without a test of presence; a missing key raises KeyError           *)
first_action_missing(d) ==
    {i \in 1..Len(FIRST_MAYA_ACTIONS) : FIRST_MAYA_ACTIONS[i] \notin InitKeys(d)}

populate_raises(d) == first_action_missing(d) # {}

\* the first actions enqueued: all of them, or those before the missing key
first_actions_enqueued(d) ==
    IF populate_raises(d)
    THEN LET n == CHOOSE i \in first_action_missing(d) :
                     \A j \in first_action_missing(d) : i <= j
         IN SubSeq(FIRST_MAYA_ACTIONS, 1, n - 1)
    ELSE FIRST_MAYA_ACTIONS

\* init_keys: the recognized keys present, in the order of this iteration
populate_action_queue(q, d, init_keys) ==
    q \o <<"renderer", "path_mapping">> \o first_actions_enqueued(d)
      \o (IF populate_raises(d) THEN <<>> ELSE init_keys)

----------------------------------------------------------------------------
(* How a lifecycle call ended, with what its caller can observe right then *)

Outcome(call, kind, exc, info) ==
    [call |-> call, kind |-> kind, exc |-> exc, info |-> info,
     alive |-> maya_is_running(maya_client),
     rendering |-> is_rendering,
     pending |-> exc_info,
     pending_at_call |-> IF pc = "idle" THEN exc_info # NoExc ELSE call_exc,
     queue_empty |-> Len(action_queue) = 0,
     loop_exit |-> loop_exit,
     drained_in_time |-> drained_in_time,
     terminate_calls |-> terminate_calls,
     run_data |-> run_data]

NoResult ==
    [call |-> "none", kind |-> "none", exc |-> NoExc, info |-> 0,
     alive |-> FALSE, rendering |-> FALSE, pending |-> NoExc,
     pending_at_call |-> FALSE, queue_empty |-> TRUE, loop_exit |-> "none",
     drained_in_time |-> FALSE, terminate_calls |-> 0, run_data |-> "none"]

\* no client process is looked at on its own, no dirmap call
NoClientProc == [stage |-> "none"]

NoDirMap == [package |-> "none", all_mappings |-> <<>>, called |-> FALSE, items |-> <<>>]

\* the adaptor is looked at, not a client process nor a dirmap call
NoClientCalls == client_proc = NoClientProc /\ dir_map = NoDirMap

\* the fields of a newly constructed adaptor
Constructed ==
    /\ pc = "idle"
    /\ phase = "new"
    /\ runs = 0
    /\ server_thread = "none"
    /\ server_path = FALSE
    /\ server_shutdown = FALSE
    /\ maya_client = "none"
    /\ returncode = NoCode
    /\ action_queue = <<>>
    /\ is_rendering = FALSE
    /\ exc_info = NoExc
    /\ performing_cleanup = FALSE
    /\ arnold_temp_dir = FALSE
    /\ arnold_dir_on_disk = FALSE
    /\ pathmap_writes = 0
    /\ progress = NoProgress
    /\ timeout_left = 0
    /\ loop_exit = "none"
    /\ result = NoResult
    /\ call_exc = FALSE
    /\ drained_in_time = FALSE
    /\ enqueued = <<>>
    /\ delivered = <<>>
    /\ terminate_calls = 0
    /\ run_data = "none"
    /\ second_adaptor = FALSE
    /\ completed = 0
    /\ env_server_path = FALSE
    /\ arnold_pathmap_file = <<>>
    /\ regex_callbacks = <<>>

Init ==
    /\ init_data \in InitDatas
    /\ sys_platform = "linux"
    /\ mapping_rules = path_mapping_rules(init_data)
    /\ Constructed
    /\ NoClientCalls

----------------------------------------------------------------------------
(* Controller thread.  pc, result, timeout_left and loop_exit belong to it. *)

\* positions of on_start from the creation of its timer on
StartWaitPcs == {"start_w_running", "start_w_exc", "start_w_len", "start_w_timer",
                 "start_post", "start_post_timer"}

\* a call begins, or goes on to its next step
Goto(label) ==
    /\ pc' = label
    /\ result' = IF pc = "idle" THEN NoResult ELSE result
    /\ call_exc' = IF pc = "idle" THEN exc_info # NoExc ELSE call_exc
    /\ UNCHANGED <<timeout_left, loop_exit, drained_in_time, terminate_calls, run_data>>

\* _get_timer(timeout), on the way to a busy-wait loop
GotoWithTimer(label, timeout) ==
    /\ pc' = label
    /\ result' = IF pc = "idle" THEN NoResult ELSE result
    /\ call_exc' = IF pc = "idle" THEN exc_info # NoExc ELSE call_exc
    /\ timeout_left' = timeout
    /\ loop_exit' = "none"
    /\ UNCHANGED <<drained_in_time, terminate_calls, run_data>>

\* a busy-wait loop ends because of the operand `reason`
ExitLoop(label, reason) ==
    /\ pc' = label
    /\ loop_exit' = reason
    /\ UNCHANGED <<result, timeout_left, call_exc, drained_in_time, terminate_calls,
                   run_data>>

\* a call that was given the run data rd ends, returning or raising; its
\* timer, its exit reason and its argument are locals
FinishWith(call, kind, exc, info, rd) ==
    /\ pc' = "idle"
    /\ result' = [Outcome(call, kind, exc, info) EXCEPT !.run_data = rd]
    /\ timeout_left' = 0
    /\ loop_exit' = "none"
    /\ call_exc' = FALSE
    /\ drained_in_time' = FALSE
    /\ terminate_calls' = 0
    /\ run_data' = "none"

Finish(call, kind, exc, info) == FinishWith(call, kind, exc, info, run_data)

----------------------------------------------------------------------------
(* on_start *)

(* validators.init_data.validate(self.init_data), the first statement of    *)
(* on_start that can fail                                                   *)
\* (variant: the payload is not validated)
init_data_validate_skipped(d) == "go"

init_data_validate(d) == IF d.valid THEN "go" ELSE "ValidationError"

\* validate the init data, update_status(progress=0)
on_start_validate ==
    /\ pc = "idle" /\ phase = "new"
    /\ phase' = "started"
    /\ IF init_data_validate(init_data) = "go"
       THEN Goto("start_server_thread") /\ progress' = 0
       ELSE Finish("on_start", "ValidationError", NoExc, 0) /\ UNCHANGED progress
    /\ UNCHANGED <<init_data, sys_platform, mapping_rules, enqueued, delivered, second_adaptor, completed, env_server_path, client_proc, dir_map, regex_callbacks, pathmap_writes, arnold_pathmap_file, runs, server_thread, server_path, server_shutdown,
                   maya_client, returncode, action_queue, is_rendering, exc_info,
                   performing_cleanup, arnold_temp_dir, arnold_dir_on_disk>>

\* _start_maya_server_thread: start the thread, then _wait_for_socket's timer
start_maya_server_thread ==
    /\ pc = "start_server_thread"
    /\ server_thread' = "alive"
    /\ GotoWithTimer("wait_socket", ServerStartTimeoutTicks)
    /\ UNCHANGED <<init_data, sys_platform, mapping_rules, enqueued, delivered, second_adaptor, completed, env_server_path, client_proc, dir_map, regex_callbacks, pathmap_writes, arnold_pathmap_file, phase, runs, server_path, server_shutdown, maya_client,
                   returncode, action_queue, is_rendering, exc_info, performing_cleanup,
                   arnold_temp_dir, arnold_dir_on_disk, progress>>

(* the condition of the busy-wait of _wait_for_socket:                      *)
(* (self._server is None or self._server.server_path is None)               *)
(*     and is_not_timed_out()                                               *)
\* (variant: the wait lasts until the deadline, published path or not)
socket_wait_continues_until_deadline(path, left) == is_not_timed_out(left)

socket_wait_continues(path, left) == ~path /\ is_not_timed_out(left)

\* _wait_for_socket: one evaluation of the busy-wait condition
wait_for_socket_poll ==
    /\ pc = "wait_socket"
    /\ IF socket_wait_continues(server_path, timeout_left)
       THEN Goto("wait_socket")
       ELSE Goto("socket_check")
    /\ UNCHANGED <<init_data, sys_platform, mapping_rules, enqueued, delivered, second_adaptor, completed, env_server_path, client_proc, dir_map, regex_callbacks, pathmap_writes, arnold_pathmap_file, phase, runs, server_thread, server_path, server_shutdown,
                   maya_client, returncode, action_queue, is_rendering, exc_info,
                   performing_cleanup, arnold_temp_dir, arnold_dir_on_disk, progress>>

(* the test after the wait of _wait_for_socket:                             *)
(*   self._server is not None and self._server.server_path is not None      *)
\* (variant: the path is returned whether or not it was published)
wait_for_socket_returns_unpublished(path) == TRUE

wait_for_socket_returns(path) == path

\* _wait_for_socket: return the path, which is assigned to
\* os.environ["MAYA_ADAPTOR_SERVER_PATH"], or raise
wait_for_socket_check ==
    /\ pc = "socket_check"
    /\ IF wait_for_socket_returns(server_path)
       THEN Goto("populate") /\ env_server_path' = TRUE
       ELSE Finish("on_start", "SocketError", NoExc, 0) /\ UNCHANGED env_server_path
    /\ UNCHANGED <<init_data, sys_platform, mapping_rules, enqueued, delivered, second_adaptor, completed, client_proc, dir_map, regex_callbacks, pathmap_writes, arnold_pathmap_file, phase, runs, server_thread, server_path, server_shutdown,
                   maya_client, returncode, action_queue, is_rendering, exc_info,
                   performing_cleanup, arnold_temp_dir, arnold_dir_on_disk, progress>>

on_start_populate ==
    /\ pc = "populate"
    /\ \E init_keys \in init_key_orders(init_data) :
         /\ action_queue' = populate_action_queue(action_queue, init_data, init_keys)
         /\ enqueued' = enqueued \o populate_action_queue(<<>>, init_data, init_keys)
    /\ IF populate_raises(init_data)
       THEN \* KeyError leaves on_start with the actions enqueued so far
            /\ pc' = "idle"
            /\ result' = [Outcome("on_start", "KeyError", NoExc, 0)
                            EXCEPT !.queue_empty = FALSE]
            /\ timeout_left' = 0 /\ loop_exit' = "none" /\ call_exc' = FALSE
            /\ drained_in_time' = FALSE /\ terminate_calls' = 0
            /\ run_data' = "none"
       ELSE Goto("start_client")
    /\ UNCHANGED <<init_data, sys_platform, mapping_rules, delivered, second_adaptor, completed, env_server_path, client_proc, dir_map, regex_callbacks, pathmap_writes, arnold_pathmap_file, phase, runs, server_thread, server_path, server_shutdown,
                   maya_client, returncode, is_rendering, exc_info, performing_cleanup,
                   arnold_temp_dir, arnold_dir_on_disk, progress>>

(* _setup_arnold_pathmapping *)

\* str.replace("\\", "/")
\* (variant: the path is written as it is)
replace_backslashes_skipped(path) == path

replace_backslashes(path) ==
    [i \in 1..Len(path) |-> IF path[i] = "\\" THEN "/" ELSE path[i]]

get_arnold_osname(platform) ==
    IF platform = "darwin" THEN "mac"
    ELSE IF platform = "win32" THEN "windows"
    ELSE "linux"

\* the document: {osname: {source.replace(...): destination.replace(...) for rule in rules}}
arnold_pathmapping_rules(platform, rules) ==
    LET src(i) == replace_backslashes(rules[i].source_path)
        sources == { src(i) : i \in 1..Len(rules) }
        last(k) == CHOOSE i \in 1..Len(rules) :
                      /\ src(i) = k
                      /\ \A j \in (i + 1)..Len(rules) : src(j) # k
    IN [os \in {get_arnold_osname(platform)} |->
          [k \in sources |-> replace_backslashes(rules[last(k)].destination_path)]]

\* the temporary directory is created, the document written into it and
\* ARNOLD_PATHMAP set
write_arnold_pathmapping ==
    /\ arnold_temp_dir' = TRUE
    /\ arnold_dir_on_disk' = TRUE
    /\ pathmap_writes' = pathmap_writes + 1
    /\ arnold_pathmap_file' = arnold_pathmapping_rules(sys_platform, mapping_rules)

(* _start_maya_client: if self.init_data["renderer"] == "arnold"            *)
\* (variant: the side file is set up for every renderer)
needs_arnold_pathmapping_always(d) == TRUE

needs_arnold_pathmapping(d) == d.renderer = "arnold"

\* _start_maya_client up to the creation of the process: the regex handler
\* is built from the callback list; for arnold, _setup_arnold_pathmapping
\* creates the directory, writes the side file and sets ARNOLD_PATHMAP
setup_arnold_pathmapping ==
    /\ pc = "start_client"
    /\ regex_callbacks' = get_regex_callbacks(init_data)
    /\ IF needs_arnold_pathmapping(init_data)
       THEN write_arnold_pathmapping
       ELSE UNCHANGED <<arnold_temp_dir, arnold_dir_on_disk, pathmap_writes,
                        arnold_pathmap_file>>
    /\ Goto("spawn_client")
    /\ UNCHANGED <<init_data, sys_platform, mapping_rules, enqueued, delivered, second_adaptor, completed, env_server_path, client_proc, dir_map, phase, runs, server_thread, server_path, server_shutdown,
                   maya_client, returncode, action_queue, is_rendering, exc_info,
                   performing_cleanup, progress>>

\* the LoggingSubprocess is created, then the timer of the initialization wait
start_maya_client ==
    /\ pc = "spawn_client"
    /\ maya_client' = "running"
    /\ returncode' = NoCode
    /\ GotoWithTimer("start_w_running", StartTimeoutTicks)
    /\ UNCHANGED <<init_data, sys_platform, mapping_rules, enqueued, delivered, second_adaptor, completed, env_server_path, client_proc, dir_map, regex_callbacks, pathmap_writes, arnold_pathmap_file, phase, runs, server_thread, server_path, server_shutdown,
                   action_queue, is_rendering, exc_info, performing_cleanup,
                   arnold_temp_dir, arnold_dir_on_disk, progress>>

\* the wait loop of on_start, operand by operand
on_start_wait_running ==
    /\ pc = "start_w_running"
    /\ IF maya_is_running(maya_client)
       THEN Goto("start_w_exc")
       ELSE ExitLoop("start_post", "not_running")
    /\ UNCHANGED <<init_data, sys_platform, mapping_rules, enqueued, delivered, second_adaptor, completed, env_server_path, client_proc, dir_map, regex_callbacks, pathmap_writes, arnold_pathmap_file, phase, runs, server_thread, server_path, server_shutdown,
                   maya_client, returncode, action_queue, is_rendering, exc_info,
                   performing_cleanup, arnold_temp_dir, arnold_dir_on_disk, progress>>

on_start_wait_exception ==
    /\ pc = "start_w_exc"
    /\ LET read == has_exception(exc_info, performing_cleanup) IN
       IF read.raised THEN Finish("on_start", "Recorded", read.exc, 0)
       ELSE IF ~read.value THEN Goto("start_w_len")
       ELSE ExitLoop("start_post", "exception")
    /\ UNCHANGED <<init_data, sys_platform, mapping_rules, enqueued, delivered, second_adaptor, completed, env_server_path, client_proc, dir_map, regex_callbacks, pathmap_writes, arnold_pathmap_file, phase, runs, server_thread, server_path, server_shutdown,
                   maya_client, returncode, action_queue, is_rendering, exc_info,
                   performing_cleanup, arnold_temp_dir, arnold_dir_on_disk, progress>>

on_start_wait_queue ==
    /\ pc = "start_w_len"
    /\ IF init_incomplete(action_queue)
       THEN Goto("start_w_timer")
       ELSE ExitLoop("start_post", "queue_empty")
    /\ UNCHANGED <<init_data, sys_platform, mapping_rules, enqueued, delivered, second_adaptor, completed, env_server_path, client_proc, dir_map, regex_callbacks, pathmap_writes, arnold_pathmap_file, phase, runs, server_thread, server_path, server_shutdown,
                   maya_client, returncode, action_queue, is_rendering, exc_info,
                   performing_cleanup, arnold_temp_dir, arnold_dir_on_disk, progress>>

on_start_wait_timer ==
    /\ pc = "start_w_timer"
    /\ IF is_not_timed_out(timeout_left)
       THEN Goto("start_w_running")
       ELSE ExitLoop("start_post", "timed_out")
    /\ UNCHANGED <<init_data, sys_platform, mapping_rules, enqueued, delivered, second_adaptor, completed, env_server_path, client_proc, dir_map, regex_callbacks, pathmap_writes, arnold_pathmap_file, phase, runs, server_thread, server_path, server_shutdown,
                   maya_client, returncode, action_queue, is_rendering, exc_info,
                   performing_cleanup, arnold_temp_dir, arnold_dir_on_disk, progress>>

\* after the loop: if len(self._action_queue) > 0
on_start_post_queue ==
    /\ pc = "start_post"
    /\ IF init_incomplete(action_queue)
       THEN Goto("start_post_timer")
       ELSE Finish("on_start", "ok", NoExc, 0)
    /\ UNCHANGED <<init_data, sys_platform, mapping_rules, enqueued, delivered, second_adaptor, completed, env_server_path, client_proc, dir_map, regex_callbacks, pathmap_writes, arnold_pathmap_file, phase, runs, server_thread, server_path, server_shutdown,
                   maya_client, returncode, action_queue, is_rendering, exc_info,
                   performing_cleanup, arnold_temp_dir, arnold_dir_on_disk, progress>>

\* ... if is_not_timed_out(): RuntimeError, else TimeoutError
on_start_post_timer ==
    /\ pc = "start_post_timer"
    /\ IF start_failure(timeout_left) = "TimeoutError"
       THEN Finish("on_start", "TimeoutError", NoExc, MAYA_START_TIMEOUT_SECONDS)
       ELSE Finish("on_start", "InitRuntimeError", NoExc, 0)
    /\ UNCHANGED <<init_data, sys_platform, mapping_rules, enqueued, delivered, second_adaptor, completed, env_server_path, client_proc, dir_map, regex_callbacks, pathmap_writes, arnold_pathmap_file, phase, runs, server_thread, server_path, server_shutdown,
                   maya_client, returncode, action_queue, is_rendering, exc_info,
                   performing_cleanup, arnold_temp_dir, arnold_dir_on_disk, progress>>

----------------------------------------------------------------------------
(* on_run *)

\* the liveness guard and the validation of the run data
on_run_call ==
    /\ pc = "idle" /\ runs < MaxRuns
    /\ \E run_data_valid \in BOOLEAN :
         LET g == on_run_guard(maya_client, run_data_valid)
             rd == IF run_data_valid THEN "valid" ELSE "invalid"
         IN
         IF g = "go"
         THEN /\ pc' = "run_begin"
              /\ result' = NoResult
              /\ call_exc' = (exc_info # NoExc)
              /\ run_data' = rd
              /\ runs' = runs + 1
              /\ UNCHANGED <<timeout_left, loop_exit, drained_in_time, terminate_calls>>
         ELSE FinishWith("on_run", g, NoExc, 0, rd) /\ UNCHANGED runs
    /\ UNCHANGED <<init_data, sys_platform, mapping_rules, enqueued, delivered, second_adaptor, completed, env_server_path, client_proc, dir_map, regex_callbacks, pathmap_writes, arnold_pathmap_file, phase, server_thread, server_path, server_shutdown,
                   maya_client, returncode, action_queue, is_rendering, exc_info,
                   performing_cleanup, arnold_temp_dir, arnold_dir_on_disk, progress>>

\* (variant: start_render is enqueued but the rendering flag is left as it was)
on_run_begin_keeps_flag ==
    /\ pc = "run_begin"
    /\ is_rendering' = is_rendering
    /\ action_queue' = enqueue_start_render(action_queue)
    /\ enqueued' = Append(enqueued, "start_render")
    /\ Goto("run_w_running")
    /\ UNCHANGED <<init_data, sys_platform, mapping_rules, delivered, second_adaptor, completed, env_server_path, client_proc, dir_map, regex_callbacks, pathmap_writes, arnold_pathmap_file, phase, runs, server_thread, server_path, server_shutdown,
                   maya_client, returncode, exc_info, performing_cleanup,
                   arnold_temp_dir, arnold_dir_on_disk, progress>>

\* set the rendering flag, enqueue start_render
on_run_begin ==
    /\ pc = "run_begin"
    /\ is_rendering' = TRUE
    /\ action_queue' = enqueue_start_render(action_queue)
    /\ enqueued' = Append(enqueued, "start_render")
    /\ Goto("run_w_running")
    /\ UNCHANGED <<init_data, sys_platform, mapping_rules, delivered, second_adaptor, completed, env_server_path, client_proc, dir_map, regex_callbacks, pathmap_writes, arnold_pathmap_file, phase, runs, server_thread, server_path, server_shutdown,
                   maya_client, returncode, exc_info, performing_cleanup,
                   arnold_temp_dir, arnold_dir_on_disk, progress>>

\* the wait loop of on_run: _maya_is_rendering reads _maya_is_running, then _is_rendering
on_run_wait_running ==
    /\ pc = "run_w_running"
    /\ IF maya_is_running(maya_client)
       THEN Goto("run_w_flag")
       ELSE ExitLoop("run_post", "not_running")
    /\ UNCHANGED <<init_data, sys_platform, mapping_rules, enqueued, delivered, second_adaptor, completed, env_server_path, client_proc, dir_map, regex_callbacks, pathmap_writes, arnold_pathmap_file, phase, runs, server_thread, server_path, server_shutdown,
                   maya_client, returncode, action_queue, is_rendering, exc_info,
                   performing_cleanup, arnold_temp_dir, arnold_dir_on_disk, progress>>

on_run_wait_rendering ==
    /\ pc = "run_w_flag"
    /\ IF is_rendering
       THEN Goto("run_w_exc")
       ELSE ExitLoop("run_post", "not_rendering")
    /\ UNCHANGED <<init_data, sys_platform, mapping_rules, enqueued, delivered, second_adaptor, completed, env_server_path, client_proc, dir_map, regex_callbacks, pathmap_writes, arnold_pathmap_file, phase, runs, server_thread, server_path, server_shutdown,
                   maya_client, returncode, action_queue, is_rendering, exc_info,
                   performing_cleanup, arnold_temp_dir, arnold_dir_on_disk, progress>>

on_run_wait_exception ==
    /\ pc = "run_w_exc"
    /\ LET read == has_exception(exc_info, performing_cleanup) IN
       IF read.raised THEN Finish("on_run", "Recorded", read.exc, 0)
       ELSE IF ~read.value THEN Goto("run_w_running")
       ELSE ExitLoop("run_post", "exception")
    /\ UNCHANGED <<init_data, sys_platform, mapping_rules, enqueued, delivered, second_adaptor, completed, env_server_path, client_proc, dir_map, regex_callbacks, pathmap_writes, arnold_pathmap_file, phase, runs, server_thread, server_path, server_shutdown,
                   maya_client, returncode, action_queue, is_rendering, exc_info,
                   performing_cleanup, arnold_temp_dir, arnold_dir_on_disk, progress>>

\* after the loop: if not self._maya_is_running and self._maya_client
on_run_post ==
    /\ pc = "run_post"
    /\ IF exited_early(maya_client)
       THEN Finish("on_run", "ExitError", NoExc, returncode)
       ELSE Finish("on_run", "ok", NoExc, 0)
    /\ UNCHANGED <<init_data, sys_platform, mapping_rules, enqueued, delivered, second_adaptor, completed, env_server_path, client_proc, dir_map, regex_callbacks, pathmap_writes, arnold_pathmap_file, phase, runs, server_thread, server_path, server_shutdown,
                   maya_client, returncode, action_queue, is_rendering, exc_info,
                   performing_cleanup, arnold_temp_dir, arnold_dir_on_disk, progress>>

----------------------------------------------------------------------------
(* on_stop, on_cleanup, on_cancel *)

(* _cleanup_arnold_dir: if the reference is set, cleanup() removes the      *)
(* directory; the reference is then unset                                   *)
\* (variant: the directory is removed but the reference is kept)
cleanup_arnold_dir_keeps_reference ==
    /\ arnold_dir_on_disk' = IF arnold_temp_dir THEN FALSE ELSE arnold_dir_on_disk
    /\ arnold_temp_dir' = arnold_temp_dir

cleanup_arnold_dir ==
    /\ arnold_dir_on_disk' = IF arnold_temp_dir THEN FALSE ELSE arnold_dir_on_disk
    /\ arnold_temp_dir' = FALSE

on_stop ==
    /\ pc = "idle"
    /\ cleanup_arnold_dir
    /\ Finish("on_stop", "ok", NoExc, 0)
    /\ UNCHANGED <<init_data, sys_platform, mapping_rules, enqueued, delivered, second_adaptor, completed, env_server_path, client_proc, dir_map, regex_callbacks, pathmap_writes, arnold_pathmap_file, phase, runs, server_thread, server_path, server_shutdown,
                   maya_client, returncode, action_queue, is_rendering, exc_info,
                   performing_cleanup, progress>>

\* set the flag, push close to the front, create the timer
on_cleanup_begins(next_phase) ==
    /\ pc = "idle"
    /\ phase' = next_phase
    /\ performing_cleanup' = TRUE
    /\ action_queue' = enqueue_close(action_queue)
    /\ GotoWithTimer("clean_w_running", EndTimeoutTicks)
    /\ UNCHANGED <<init_data, sys_platform, mapping_rules, enqueued, delivered, second_adaptor, completed, env_server_path, client_proc, dir_map, regex_callbacks, pathmap_writes, arnold_pathmap_file, runs, server_thread, server_path, server_shutdown,
                   maya_client, returncode, is_rendering, exc_info, arnold_temp_dir, arnold_dir_on_disk,
                   progress>>

\* the runtime calls on_cleanup once, at the end of the session
on_cleanup_begin ==
    /\ phase \in {"new", "started"}
    /\ on_cleanup_begins("cleaned")

on_cleanup_wait_running ==
    /\ pc = "clean_w_running"
    /\ IF maya_is_running(maya_client)
       THEN Goto("clean_w_timer")
       ELSE ExitLoop("clean_terminate", "not_running")
    /\ UNCHANGED <<init_data, sys_platform, mapping_rules, enqueued, delivered, second_adaptor, completed, env_server_path, client_proc, dir_map, regex_callbacks, pathmap_writes, arnold_pathmap_file, phase, runs, server_thread, server_path, server_shutdown,
                   maya_client, returncode, action_queue, is_rendering, exc_info,
                   performing_cleanup, arnold_temp_dir, arnold_dir_on_disk, progress>>

on_cleanup_wait_timer ==
    /\ pc = "clean_w_timer"
    /\ IF is_not_timed_out(timeout_left)
       THEN Goto("clean_w_running")
       ELSE ExitLoop("clean_terminate", "timed_out")
    /\ UNCHANGED <<init_data, sys_platform, mapping_rules, enqueued, delivered, second_adaptor, completed, env_server_path, client_proc, dir_map, regex_callbacks, pathmap_writes, arnold_pathmap_file, phase, runs, server_thread, server_path, server_shutdown,
                   maya_client, returncode, action_queue, is_rendering, exc_info,
                   performing_cleanup, arnold_temp_dir, arnold_dir_on_disk, progress>>

(* the check of on_cleanup after its wait:                                  *)
(* if self._maya_is_running and self._maya_client                           *)
\* (variant: the liveness test is left out)
cleanup_terminates_any_client(client) == client # "none"

cleanup_terminates(client) == maya_is_running(client) /\ client # "none"

\* terminate the client if it is still running, shut the server down,
\* then the timer of the join
on_cleanup_terminate ==
    /\ pc = "clean_terminate"
    /\ IF cleanup_terminates(maya_client)
       THEN /\ maya_client' = "exited" /\ returncode' = KilledCode
            /\ terminate_calls' = terminate_calls + 1
       ELSE UNCHANGED <<maya_client, returncode, terminate_calls>>
    /\ server_shutdown' = (server_shutdown \/ server_path)
    /\ pc' = "clean_join"
    /\ timeout_left' = ServerEndTimeoutTicks
    /\ UNCHANGED <<result, call_exc, loop_exit, drained_in_time, run_data>>
    /\ UNCHANGED <<init_data, sys_platform, mapping_rules, enqueued, delivered, second_adaptor, completed, env_server_path, client_proc, dir_map, regex_callbacks, pathmap_writes, arnold_pathmap_file, phase, runs, server_thread, server_path, action_queue,
                   is_rendering, exc_info, performing_cleanup, arnold_temp_dir, arnold_dir_on_disk,
                   progress>>

(* self._server_thread.join(timeout=self._SERVER_END_TIMEOUT_SECONDS)       *)
(* returns when the thread has ended or the timeout has passed             *)
\* (variant: join() without a timeout)
join_returns_without_timeout(thread, left) == thread # "alive"

join_returns(thread, left) == thread # "alive" \/ ~is_not_timed_out(left)

\* join the server thread (bounded), clean the arnold directory, clear the flag
on_cleanup_join ==
    /\ pc = "clean_join"
    /\ join_returns(server_thread, timeout_left)
    /\ cleanup_arnold_dir
    /\ performing_cleanup' = FALSE
    /\ Finish("on_cleanup", "ok", NoExc, 0)
    /\ UNCHANGED <<init_data, sys_platform, mapping_rules, enqueued, delivered, second_adaptor, completed, env_server_path, client_proc, dir_map, regex_callbacks, pathmap_writes, arnold_pathmap_file, phase, runs, server_thread, server_path, server_shutdown,
                   maya_client, returncode, action_queue, is_rendering, exc_info,
                   progress>>

(* on_cancel returns early                                                  *)
(*   if not self._maya_client or not self._maya_is_running                  *)
(* and otherwise calls terminate(grace_time_s=0)                            *)
\* (variant: only the existence of the client is tested)
on_cancel_terminates_any_client(client) == client # "none"

\* (variant: on_cancel always returns early)
on_cancel_terminates_never(client) == FALSE

on_cancel_terminates(client) == ~(client = "none" \/ ~maya_is_running(client))

\* may be called at any moment, from another thread
on_cancel ==
    /\ IF on_cancel_terminates(maya_client)
       THEN maya_client' = "exited" /\ returncode' = KilledCode
       ELSE UNCHANGED <<maya_client, returncode>>
    /\ UNCHANGED <<init_data, sys_platform, mapping_rules, enqueued, delivered, second_adaptor, completed, env_server_path, client_proc, dir_map, regex_callbacks, pathmap_writes, arnold_pathmap_file, pc, phase, runs, server_thread, server_path,
                   server_shutdown, action_queue, is_rendering, exc_info,
                   performing_cleanup, arnold_temp_dir, arnold_dir_on_disk, progress, timeout_left,
                   loop_exit, result, terminate_calls, run_data, call_exc, drained_in_time>>

----------------------------------------------------------------------------
(* Server thread *)

\* serve_forever publishes the server path
server_publish ==
    /\ server_thread = "alive" /\ ~server_path /\ ~server_shutdown
    /\ server_path' = TRUE
    /\ UNCHANGED <<init_data, sys_platform, mapping_rules, enqueued, delivered, second_adaptor, completed, env_server_path, client_proc, dir_map, regex_callbacks, pathmap_writes, arnold_pathmap_file, pc, phase, runs, server_thread, server_shutdown,
                   maya_client, returncode, action_queue, is_rendering, exc_info,
                   performing_cleanup, arnold_temp_dir, arnold_dir_on_disk, progress, timeout_left,
                   loop_exit, result, terminate_calls, run_data, call_exc, drained_in_time>>

\* serve_forever returns after shutdown
server_stop ==
    /\ server_thread = "alive" /\ server_shutdown
    /\ server_thread' = "dead"
    /\ UNCHANGED <<init_data, sys_platform, mapping_rules, enqueued, delivered, second_adaptor, completed, env_server_path, client_proc, dir_map, regex_callbacks, pathmap_writes, arnold_pathmap_file, pc, phase, runs, server_path, server_shutdown,
                   maya_client, returncode, action_queue, is_rendering, exc_info,
                   performing_cleanup, arnold_temp_dir, arnold_dir_on_disk, progress, timeout_left,
                   loop_exit, result, terminate_calls, run_data, call_exc, drained_in_time>>

----------------------------------------------------------------------------
(* Worker process *)

\* the action table of the render handler returned by get_render_handler
action_dict(renderer) ==
    {"start_render", "camera", "image_height", "image_width", "output_file_path",
     "output_file_prefix", "path_mapping", "project_path", "render_layer",
     "render_setup_include_lights", "scene_file"}
    \cup (IF renderer = "arnold" THEN {"error_on_arnold_license_fail"} ELSE {})

(* self.actions of the client: close and renderer from the start, and the   *)
(* handler's table once set_renderer has run for the renderer action        *)
client_actions(handed, d) ==
    {"close", "renderer"}
    \cup (IF \E i \in 1..Len(handed) : handed[i] = "renderer"
          THEN action_dict(d.renderer) ELSE {})

\* the client asks the server for its next action; close ends the client
worker_pop ==
    /\ maya_is_running(maya_client)
    /\ server_thread = "alive" /\ server_path /\ ~server_shutdown
    /\ action_queue # <<>>
    /\ action_queue' = Tail(action_queue)
    /\ delivered' = Append(delivered, Head(action_queue))
    /\ IF Head(action_queue) = "close"
       THEN maya_client' = "exited" /\ returncode' = 0
       ELSE UNCHANGED <<maya_client, returncode>>
    /\ drained_in_time' = (drained_in_time
                            \/ (pc \in StartWaitPcs /\ Len(action_queue) = 1
                                /\ timeout_left > 0))
    /\ UNCHANGED <<init_data, sys_platform, mapping_rules, enqueued, second_adaptor, completed, env_server_path, client_proc, dir_map, regex_callbacks, pathmap_writes, arnold_pathmap_file, pc, phase, runs, server_thread, server_path,
                   server_shutdown, is_rendering, exc_info, performing_cleanup,
                   arnold_temp_dir, arnold_dir_on_disk, progress, timeout_left, loop_exit, result, terminate_calls, run_data, call_exc>>

\* the regex handler is given one line
HandleLine(line) ==
    /\ \E continue \in BOOLEAN :
         LET s == EmitFrom(regex_callbacks, 1,
                           [is_rendering |-> is_rendering, progress |-> progress,
                            exc_info |-> exc_info, raised |-> FALSE],
                           line, performing_cleanup, continue)
         IN /\ is_rendering' = s.is_rendering
            /\ progress' = s.progress
            /\ exc_info' = s.exc_info
    /\ UNCHANGED <<init_data, sys_platform, mapping_rules, enqueued, delivered, second_adaptor, env_server_path, client_proc, dir_map, regex_callbacks, pathmap_writes, arnold_pathmap_file, pc, phase, runs, server_thread, server_path,
                   server_shutdown, maya_client, returncode, action_queue,
                   performing_cleanup, arnold_temp_dir, arnold_dir_on_disk, timeout_left, loop_exit, result, terminate_calls, run_data, call_exc, drained_in_time>>

\* start_render actions the client was handed
renders_started(handed) ==
    Cardinality({i \in 1..Len(handed) : handed[i] = "start_render"})

(* start_render prints the completion marker as its last statement: the   *)
(* client has written at most one marker per start_render it was handed   *)
\* (variant: the client may write the marker at any time)
may_write_any_time(line, handed, markers) == TRUE

may_write(line, handed, markers) ==
    line = LineComplete => markers < renders_started(handed)

\* the client writes a line; the regex handler classifies it
worker_emit ==
    /\ maya_is_running(maya_client)
    /\ \E line \in WorkerLines :
         /\ may_write(line, delivered, completed)
         /\ HandleLine(line)
         /\ completed' = IF line = LineComplete THEN completed + 1 ELSE completed

\* the client process ends on its own
worker_exit ==
    /\ maya_is_running(maya_client)
    /\ \E code \in 1..MaxCrashCode :
         /\ maya_client' = "exited"
         /\ returncode' = code
    /\ UNCHANGED <<init_data, sys_platform, mapping_rules, enqueued, delivered, second_adaptor, completed, env_server_path, client_proc, dir_map, regex_callbacks, pathmap_writes, arnold_pathmap_file, pc, phase, runs, server_thread, server_path,
                   server_shutdown, action_queue, is_rendering, exc_info,
                   performing_cleanup, arnold_temp_dir, arnold_dir_on_disk, progress, timeout_left,
                   loop_exit, result, terminate_calls, run_data, call_exc, drained_in_time>>

\* time passes
Tick ==
    /\ timeout_left > 0
    /\ timeout_left' = timeout_left - 1
    /\ UNCHANGED <<init_data, sys_platform, mapping_rules, enqueued, delivered, second_adaptor, completed, env_server_path, client_proc, dir_map, regex_callbacks, pathmap_writes, arnold_pathmap_file, pc, phase, runs, server_thread, server_path,
                   server_shutdown, maya_client, returncode, action_queue,
                   is_rendering, exc_info, performing_cleanup, arnold_temp_dir, arnold_dir_on_disk,
                   progress, loop_exit, result, terminate_calls, run_data, call_exc, drained_in_time>>

----------------------------------------------------------------------------
Next ==
    \/ on_start_validate
    \/ start_maya_server_thread
    \/ wait_for_socket_poll
    \/ wait_for_socket_check
    \/ on_start_populate
    \/ setup_arnold_pathmapping
    \/ start_maya_client
    \/ on_start_wait_running
    \/ on_start_wait_exception
    \/ on_start_wait_queue
    \/ on_start_wait_timer
    \/ on_start_post_queue
    \/ on_start_post_timer
    \/ on_run_call
    \/ on_run_begin
    \/ on_run_wait_running
    \/ on_run_wait_rendering
    \/ on_run_wait_exception
    \/ on_run_post
    \/ on_stop
    \/ on_cleanup_begin
    \/ on_cleanup_wait_running
    \/ on_cleanup_wait_timer
    \/ on_cleanup_terminate
    \/ on_cleanup_join
    \/ on_cancel
    \/ server_publish
    \/ server_stop
    \/ worker_pop
    \/ worker_emit
    \/ worker_exit
    \/ Tick

Spec == Init /\ [][Next]_vars

(* The controller thread is never starved in the middle of a lifecycle     *)
(* call, and time passes.  Nothing is assumed of the caller, the worker or  *)
(* the server thread.                                                       *)
ControllerStep ==
    \/ start_maya_server_thread \/ wait_for_socket_poll \/ wait_for_socket_check
    \/ on_start_populate \/ setup_arnold_pathmapping \/ start_maya_client
    \/ on_start_wait_running \/ on_start_wait_exception \/ on_start_wait_queue
    \/ on_start_wait_timer \/ on_start_post_queue \/ on_start_post_timer
    \/ on_run_begin \/ on_run_wait_running \/ on_run_wait_rendering
    \/ on_run_wait_exception \/ on_run_post
    \/ on_cleanup_wait_running \/ on_cleanup_wait_timer \/ on_cleanup_terminate
    \/ on_cleanup_join

FairSpec == Spec /\ WF_vars(ControllerStep) /\ WF_vars(Tick)

----------------------------------------------------------------------------
(* A second adaptor in the same process.  _action_queue = ActionsQueue() is *)
(* evaluated once, in the class body, and no method assigns                 *)
(* self._action_queue: every instance reads the queue object of the class.  *)

\* self._action_queue, as read through the given instance
action_queue_of(adaptor) == action_queue

\* MayaAdaptor(init_data) is constructed again once the first session is over
construct_second_adaptor ==
    /\ pc = "idle" /\ phase = "cleaned" /\ ~second_adaptor
    /\ second_adaptor' = TRUE
    /\ UNCHANGED <<init_data, sys_platform, mapping_rules, pc, phase, runs, server_thread, server_path,
                   server_shutdown, maya_client, returncode, action_queue,
                   is_rendering, exc_info, performing_cleanup, arnold_temp_dir,
                   progress, timeout_left, loop_exit, result, call_exc,
                   drained_in_time, enqueued, delivered, terminate_calls, run_data,
                   arnold_dir_on_disk, pathmap_writes, arnold_pathmap_file,
                   regex_callbacks, completed, env_server_path, client_proc, dir_map>>

NextTwoAdaptors == Next \/ construct_second_adaptor

TwoAdaptorsSpec == Init /\ [][NextTwoAdaptors]_vars

----------------------------------------------------------------------------
(* _setup_arnold_pathmapping on its own, for every host platform and every  *)
(* short list of rules over a few paths with and without backslashes.       *)

MaxRules == 2

SourcePaths == { <<"a", "\\">>, <<"a", "/">>, <<"\\", "\\">>, <<"b">> }

DestinationPaths == { <<"\\">>, <<"/">>, <<"c", "\\">> }

Platforms == {"linux", "darwin", "win32"}

PathmapRules ==
    { Rule(os, src, dst) : os \in {"windows", "linux"},
                           src \in SourcePaths, dst \in DestinationPaths }

PathmapInit ==
    /\ init_data \in { d \in InitDatas : d.valid /\ needs_arnold_pathmapping(d) }
    /\ sys_platform \in Platforms
    /\ mapping_rules \in UNION { [1..n -> PathmapRules] : n \in 0..MaxRules }
    /\ Constructed
    /\ NoClientCalls

\* adaptor._setup_arnold_pathmapping() on a newly constructed adaptor
call_setup_arnold_pathmapping ==
    /\ pc = "idle" /\ phase = "new" /\ pathmap_writes = 0
    /\ write_arnold_pathmapping
    /\ UNCHANGED <<init_data, sys_platform, mapping_rules, pc, phase, runs,
                   server_thread, server_path, server_shutdown, maya_client,
                   returncode, action_queue, is_rendering, exc_info,
                   performing_cleanup, progress, timeout_left, loop_exit, result,
                   call_exc, drained_in_time, enqueued, delivered, terminate_calls,
                   run_data, second_adaptor, completed, env_server_path, client_proc, dir_map, regex_callbacks>>

PathmapSpec == PathmapInit /\ [][call_setup_arnold_pathmapping]_vars

----------------------------------------------------------------------------
(* _get_regex_callbacks and the handler built from it on their own, for    *)
(* every setting of the two error flags.                                    *)

FlagPayloads ==
    { Payload(TRUE, renderer, strict, arnold_fail, {}) :
        renderer \in {"arnold", "vray", "mayaSoftware"},
        strict \in BOOLEAN, arnold_fail \in BOOLEAN }

CallbacksInit ==
    /\ init_data \in FlagPayloads
    /\ sys_platform = "linux"
    /\ mapping_rules = path_mapping_rules(init_data)
    /\ Constructed
    /\ NoClientCalls

\* RegexHandler(adaptor._get_regex_callbacks()) on a newly constructed adaptor
call_get_regex_callbacks ==
    /\ pc = "idle" /\ phase = "new" /\ regex_callbacks = <<>>
    /\ regex_callbacks' = get_regex_callbacks(init_data)
    /\ UNCHANGED <<init_data, sys_platform, mapping_rules, arnold_pathmap_file, pc,
                   phase, runs, server_thread, server_path, server_shutdown,
                   maya_client, returncode, action_queue, is_rendering, exc_info,
                   performing_cleanup, arnold_temp_dir, arnold_dir_on_disk,
                   pathmap_writes, progress, timeout_left, loop_exit, result,
                   call_exc, drained_in_time, enqueued, delivered, terminate_calls,
                   run_data, second_adaptor, completed, env_server_path, client_proc, dir_map>>

\* the handler is given a line of output
regex_handler_line ==
    /\ regex_callbacks # <<>>
    /\ \E line \in HandlerLines : HandleLine(line)
    /\ UNCHANGED completed

CallbacksNext == call_get_regex_callbacks \/ regex_handler_line

CallbacksSpec == CallbacksInit /\ [][CallbacksNext]_vars

----------------------------------------------------------------------------
(* A caller that calls on_cleanup a second time *)

on_cleanup_again ==
    /\ phase = "cleaned"
    /\ on_cleanup_begins("cleaned_again")

NextRepeatedCleanup == Next \/ on_cleanup_again

RepeatedCleanupSpec == Init /\ [][NextRepeatedCleanup]_vars

(* TemporaryDirectory.cleanup() fails to remove the directory and raises:   *)
(* _cleanup_arnold_dir and on_cleanup end with that error, the statements   *)
(* after the call (lines 601 and 532) are not reached                       *)
on_cleanup_arnold_dir_fails ==
    /\ pc = "clean_join"
    /\ join_returns(server_thread, timeout_left)
    /\ arnold_temp_dir
    /\ Finish("on_cleanup", "OSError", NoExc, 0)
    /\ UNCHANGED <<init_data, sys_platform, mapping_rules, enqueued, delivered, second_adaptor, completed, env_server_path, client_proc, dir_map, regex_callbacks, pathmap_writes, arnold_pathmap_file, phase, runs, server_thread, server_path, server_shutdown,
                   maya_client, returncode, action_queue, is_rendering, exc_info,
                   performing_cleanup, arnold_temp_dir, arnold_dir_on_disk, progress>>

NextFailingCleanup == Next \/ on_cleanup_arnold_dir_fails

FailingCleanupSpec == Init /\ [][NextFailingCleanup]_vars

\* sessions whose init data may lack one of the first init keys
FirstKeysInit ==
    /\ init_data \in InitDatas \cup {NoProjectPath, NoSceneFile}
    /\ sys_platform = "linux"
    /\ mapping_rules = path_mapping_rules(init_data)
    /\ Constructed
    /\ NoClientCalls

FirstKeysSpec == FirstKeysInit /\ [][Next]_vars

----------------------------------------------------------------------------
(* DirectoryMappingDict: items, keys and values over the flat list          *)
(* [source1, destination1, source2, destination2, ...] the host returns     *)

MaxMappings == 2
DirPaths == {"/src", "/dst", "/tmp"}

\* the lists maya.cmds.dirmap(getAllMappings=True) can return
AllMappingLists == UNION { [1..(2 * n) -> DirPaths] : n \in 0..MaxMappings }

\* seq[start::step] of Python, start counted from 0
py_slice(seq, start, step) ==
    LET count == IF Len(seq) <= start THEN 0
                 ELSE (Len(seq) - start + step - 1) \div step
    IN [k \in 1..count |-> seq[start + (k - 1) * step + 1]]

\* list(zip(a, b)): as long as the shorter argument
py_zip(a, b) ==
    LET n == IF Len(a) <= Len(b) THEN Len(a) ELSE Len(b)
    IN [k \in 1..n |-> <<a[k], b[k]>>]

\* list(zip(all_mappings[::2], all_mappings[1::]))
dir_map_items(all_mappings) ==
    py_zip(py_slice(all_mappings, 0, 2), py_slice(all_mappings, 1, 1))

\* list(_grouper(all_mappings, 2)) of the pymel package: chunks of two,
\* a short last chunk filled with None
grouper_items(all_mappings) ==
    LET n == (Len(all_mappings) + 1) \div 2
    IN [k \in 1..n |-> <<all_mappings[2 * k - 1],
                         IF 2 * k <= Len(all_mappings) THEN all_mappings[2 * k]
                                                       ELSE "None">>]

Packages == {"deadline.maya_adaptor", "deadline_adaptor_for_maya"}

\* DirectoryMappingDict.items of either package
items(package, all_mappings) ==
    IF package = "deadline.maya_adaptor" THEN dir_map_items(all_mappings)
                                         ELSE grouper_items(all_mappings)

\* all_mappings[::2]
dir_map_keys(all_mappings) == py_slice(all_mappings, 0, 2)

\* all_mappings[1::2]
dir_map_values(all_mappings) == py_slice(all_mappings, 1, 2)

DirMapInit ==
    /\ init_data = ArnoldFlagOtherRenderer
    /\ sys_platform = "linux"
    /\ mapping_rules = <<>>
    /\ Constructed
    /\ client_proc = NoClientProc
    /\ dir_map \in { [package |-> p, all_mappings |-> l, called |-> FALSE, items |-> <<>>] :
                       p \in Packages, l \in AllMappingLists }

\* DirectoryMapping.mappings.items()
call_dir_map_items ==
    /\ ~dir_map.called
    /\ dir_map' = [dir_map EXCEPT !.called = TRUE,
                                  !.items = items(dir_map.package, dir_map.all_mappings)]
    /\ UNCHANGED <<adaptor_vars, client_proc>>

DirMapSpec == DirMapInit /\ [][call_dir_map_items]_vars

----------------------------------------------------------------------------
(* The worker client on its own: main, the renderer action, start_render    *)

Renderers == {"mayaSoftware", "arnold", "vray", "renderman"}

\* the handler class get_render_handler(renderer) instantiates
get_render_handler(package, renderer) ==
    IF package = "deadline.maya_adaptor"
    THEN CASE renderer = "arnold" -> "ArnoldHandler"
           [] renderer = "vray" -> "VRayHandler"
           [] renderer = "renderman" -> "RenderManHandler"
           [] OTHER -> "DefaultMayaHandler"
    ELSE IF renderer = "arnold" THEN "pymel.ArnoldHandler" ELSE "MayaHandlerBase"

Handlers == { get_render_handler(p, r) : p \in Packages, r \in Renderers }

\* what start_render is called with and what it finds in the host:
\* frame: data.get("frame"); camera: data.get("camera", self.camera_name)
\* looked up in the scene; region: the four region_* keys of data
StartRenderInputs ==
    [frame : {"None", "given"},
     camera : {"unspecified", "unknown", "not_renderable", "renderable"},
     scene_has_renderable : BOOLEAN,
     region : {"none", "partial", "full"},
     plugin_loaded : BOOLEAN,
     vray_settings : BOOLEAN,
     render_ok : BOOLEAN]

\* variant: the marker is written before the renderer is called
start_render_stmts_marker_first(handler) ==
    <<"frame", "camera", "marker", "render">>

\* the statements of start_render that can raise, call the renderer or
\* write the completion marker, in the order of the code
start_render_stmts(handler) ==
    CASE handler = "DefaultMayaHandler" ->
            <<"frame", "camera", "region_any", "render", "marker">>
      [] handler = "ArnoldHandler" ->
            <<"frame", "camera", "region_partial", "render", "marker">>
      [] handler = "VRayHandler" ->
            <<"plugin", "frame", "camera", "region_any", "vray_settings", "render", "marker">>
      [] handler = "RenderManHandler" ->
            <<"plugin", "frame", "region_any", "render", "marker">>
      [] OTHER ->   \* MayaHandlerBase and ArnoldHandler of the pymel package
            <<"frame", "camera_default", "render", "marker">>

\* whether a test of start_render raises RuntimeError on these inputs
statement_raises(stmt, data) ==
    CASE stmt = "plugin" -> ~data.plugin_loaded
      [] stmt = "frame" -> data.frame = "None"
      [] stmt = "camera" -> data.camera # "renderable"
      [] stmt = "camera_default" ->
            data.camera # "renderable" /\ ~data.scene_has_renderable
      [] stmt = "region_any" -> data.region # "none"
      [] stmt = "region_partial" -> data.region = "partial"
      [] stmt = "vray_settings" -> ~data.vray_settings
      [] OTHER -> FALSE

RECURSIVE run_stmts(_, _, _, _)
\* executes stmts[i..] : the trace of render calls and markers, and how it ended
run_stmts(stmts, i, data, events) ==
    IF i > Len(stmts) THEN [events |-> events, raised |-> FALSE, cause |-> "none"]
    ELSE LET stmt == stmts[i] IN
         CASE stmt = "marker" -> run_stmts(stmts, i + 1, data, Append(events, "marker"))
           [] stmt = "render" ->
                IF data.render_ok
                THEN run_stmts(stmts, i + 1, data, events \o <<"render_call", "render_returned">>)
                ELSE [events |-> Append(events, "render_call"), raised |-> TRUE,
                      cause |-> "render"]
           [] OTHER ->
                IF statement_raises(stmt, data)
                THEN [events |-> events, raised |-> TRUE, cause |-> stmt]
                ELSE run_stmts(stmts, i + 1, data, events)

\* handler.start_render(data)
start_render(handler, data) == run_stmts(start_render_stmts(handler), 1, data, <<>>)

\* variant: only the environment variable is tested
main_raises_env_only(env, path_exists) == env # "set"

\* main() raises OSError before constructing the client
main_raises(env, path_exists) == env # "set" \/ ~path_exists

NoCall == [events |-> <<>>, raised |-> FALSE, cause |-> "none"]

NoData == [frame |-> "None", camera |-> "unspecified", scene_has_renderable |-> FALSE,
           region |-> "none", plugin_loaded |-> FALSE, vray_settings |-> FALSE,
           render_ok |-> FALSE]

ClientInit ==
    /\ init_data = ArnoldFlagOtherRenderer
    /\ sys_platform = "linux"
    /\ mapping_rules = <<>>
    /\ Constructed
    /\ dir_map = NoDirMap
    /\ client_proc \in
          { [stage |-> "main", env |-> e, path_exists |-> x, package |-> p,
             renderer |-> r, data |-> d, constructed |-> FALSE, polled |-> FALSE,
             handler |-> "none", call |-> NoCall] :
               e \in {"unset", "empty", "set"}, x \in BOOLEAN, p \in Packages,
               r \in Renderers, d \in {NoData} }
    /\ (client_proc.env # "set" => ~client_proc.path_exists)

\* main(): the environment variable, the path, MayaClient(server_path), poll()
client_main ==
    /\ client_proc.stage = "main"
    /\ IF main_raises(client_proc.env, client_proc.path_exists)
       THEN client_proc' = [client_proc EXCEPT !.stage = "OSError"]
       ELSE client_proc' = [client_proc EXCEPT !.stage = "polling",
                                               !.constructed = TRUE,
                                               !.polled = TRUE]
    /\ UNCHANGED <<adaptor_vars, dir_map>>

\* MayaClient.set_renderer: the "renderer" action, first of every session
client_set_renderer ==
    /\ client_proc.stage = "polling"
    /\ client_proc' = [client_proc EXCEPT
            !.stage = "ready",
            !.handler = get_render_handler(client_proc.package, client_proc.renderer)]
    /\ UNCHANGED <<adaptor_vars, dir_map>>

\* the "start_render" action reaches the handler's start_render
client_start_render ==
    /\ client_proc.stage = "ready"
    /\ \E data \in StartRenderInputs :
          client_proc' = [client_proc EXCEPT
              !.stage = "rendered",
              !.data = data,
              !.call = start_render(client_proc.handler, data)]
    /\ UNCHANGED <<adaptor_vars, dir_map>>

NextClient == client_main \/ client_set_renderer \/ client_start_render

ClientSpec == ClientInit /\ [][NextClient]_vars

TypeOK ==
    /\ init_data.valid \in BOOLEAN
    /\ runs \in 0..MaxRuns
    /\ maya_client \in {"none", "running", "exited"}
    /\ is_rendering \in BOOLEAN
    /\ performing_cleanup \in BOOLEAN
    /\ progress \in {NoProgress, 0, 50, 100}
    /\ timeout_left \in Nat
    /\ terminate_calls \in 0..1
    /\ run_data \in {"none", "valid", "invalid"}
    /\ arnold_temp_dir \in BOOLEAN
    /\ arnold_dir_on_disk \in BOOLEAN
    /\ pathmap_writes \in 0..1
    /\ second_adaptor \in BOOLEAN
    /\ completed \in 0..MaxRuns
    /\ env_server_path \in BOOLEAN

----------------------------------------------------------------------------
(* Properties *)

\* the call got as far as its busy-wait
Waited(r) == r.kind \in {"ok", "ExitError", "Recorded", "InitRuntimeError", "TimeoutError"}

(* C1: an exception recorded by an error handler while on_start or on_run  *)
(* is waiting is raised by that call: a call that began with no exception  *)
(* pending and ends with one pending ends by raising it.                    *)
C1_NoLostErrors ==
    (/\ result.call \in {"on_start", "on_run"}
     /\ ~result.pending_at_call
     /\ result.pending # NoExc)
    => (result.kind = "Recorded" /\ result.exc = result.pending)

(* C2: on_start raises TimeoutError only when its wait loop ended because  *)
(* the deadline passed, and the initialization RuntimeError whenever the   *)
(* loop ended because the worker was not running with actions still queued. *)
C2_StartErrorFollowsLoopExit ==
    result.call = "on_start" =>
        /\ (result.kind = "TimeoutError" => result.loop_exit = "timed_out")
        /\ (result.loop_exit = "not_running" /\ ~result.queue_empty
               => result.kind = "InitRuntimeError")

C4_CompleteMeansReturn ==
    (result.call = "on_run" /\ Waited(result) /\ ~result.rendering)
    => result.kind = "ok"

\* the classification of one given line, as a step
ClassifyStep(line) == maya_is_running(maya_client) /\ HandleLine(line)

RunWaitPcs == {"run_w_running", "run_w_flag", "run_w_exc"}

(* C4 amended: while on_run waits with no exception pending, classifying    *)
(* the render-complete line clears the rendering flag and reports progress  *)
(* 100; when on_run's wait ends because it read the flag as cleared, on_run *)
(* returns without raising if the worker is still running at the check     *)
(* after the wait, and raises the exit-code error if it has exited.         *)
C4_CompleteThenReturnIfAlive ==
    /\ [][ (pc \in RunWaitPcs /\ exc_info = NoExc /\ ClassifyStep(LineComplete))
             => (~is_rendering' /\ progress' = 100 /\ exc_info' = NoExc) ]_vars
    /\ [](result.call = "on_run" /\ result.loop_exit = "not_rendering"
            => /\ ~result.rendering
               /\ IF result.alive THEN result.kind = "ok"
                                  ELSE result.kind = "ExitError" /\ result.info = returncode)

C4_Witness ==
    /\ result.call = "on_run" /\ result.kind = "ok" /\ result.loop_exit = "not_rendering"
    /\ ~result.rendering /\ progress = 100 /\ result.pending = NoExc /\ result.alive

(* C5: when the worker exits while on_run is waiting (on_run waited and    *)
(* the worker is not running when it ends), on_run raises the error that    *)
(* carries the worker's return code.                                        *)
C5_ExitWhileRenderingRaisesExitCode ==
    (result.call = "on_run" /\ Waited(result) /\ ~result.alive)
    => (result.kind = "ExitError" /\ result.info = returncode)

(* C5 amended: when on_run's wait ends because it found the worker not     *)
(* running, on_run raises the error carrying the worker's return code; a    *)
(* poll that read the worker as running just before it exited and then      *)
(* finds an exception pending raises that exception instead.  on_run never  *)
(* returns normally after the worker exited during its wait.                *)
C5_ExitWhileRenderingOutcome ==
    result.call = "on_run" =>
        /\ result.loop_exit = "not_running"
              => (result.kind = "ExitError" /\ result.info = returncode /\ ~result.alive)
        /\ (Waited(result) /\ ~result.alive)
              => \/ result.kind = "ExitError" /\ result.info = returncode
                 \/ /\ result.kind = "Recorded" /\ result.exc = result.pending
                    /\ result.exc # NoExc /\ result.loop_exit = "none"

C5_Witness ==
    /\ result.call = "on_run" /\ result.kind = "ExitError" /\ result.loop_exit = "not_running"
    /\ result.rendering /\ result.info = returncode /\ returncode = KilledCode

(* C6: on_start returns without raising, with the action queue empty, when  *)
(* the worker stayed alive, no exception was recorded and the worker popped *)
(* every initialization action before the start deadline; and whenever      *)
(* on_start returns normally the queue is empty.                            *)
C6_StartSucceedsWhenDrained ==
    result.call = "on_start" =>
        /\ (result.drained_in_time /\ result.alive /\ result.pending = NoExc)
              => (result.kind = "ok" /\ result.queue_empty)
        /\ result.kind = "ok" => result.queue_empty

C6_Witness ==
    /\ result.call = "on_start" /\ result.kind = "ok"
    /\ result.drained_in_time /\ result.alive /\ result.pending = NoExc
    /\ result.queue_empty /\ result.loop_exit = "queue_empty"
    /\ action_queue = <<>>

(* C7: when on_start ends with the worker still alive, no exception         *)
(* recorded and actions left in the queue, its wait ended because the       *)
(* deadline passed and it raises TimeoutError naming the configured         *)
(* timeout; while that deadline has not passed on_start is not on its way   *)
(* to raise it.                                                             *)
C7_StartTimesOut ==
    /\ (result.call = "on_start" /\ Waited(result) /\ result.alive
          /\ result.pending = NoExc /\ ~result.queue_empty)
         => /\ result.kind = "TimeoutError"
            /\ result.info = MAYA_START_TIMEOUT_SECONDS
            /\ result.loop_exit = "timed_out"
    /\ (pc \in {"start_post", "start_post_timer"} /\ loop_exit = "timed_out")
         => timeout_left = 0

C7_Witness ==
    /\ result.call = "on_start" /\ result.kind = "TimeoutError"
    /\ result.info = MAYA_START_TIMEOUT_SECONDS
    /\ result.alive /\ result.pending = NoExc /\ ~result.queue_empty
    /\ result.loop_exit = "timed_out"

\* the fields of the adaptor on_run may write
RunFields == <<action_queue, is_rendering, exc_info, performing_cleanup, maya_client,
               returncode, progress, server_thread, server_path, server_shutdown,
               arnold_temp_dir, arnold_dir_on_disk, pathmap_writes>>

\* the step in which on_run is called: it goes on to set the flag, or ends at once
OnRunCalled ==
    /\ pc = "idle"
    /\ \/ pc' = "run_begin"
       \/ pc' = "idle" /\ result' # result /\ result'.call = "on_run"

(* C8: on_run called when the worker does not exist or is not running       *)
(* raises MayaNotRunningError at once: the call is over after that step,   *)
(* no start_render is enqueued, the rendering flag and every other field   *)
(* keep their values.                                                       *)
C8_RunNotRunningNoEffect ==
    [][ (OnRunCalled /\ ~maya_is_running(maya_client))
          => /\ pc' = "idle"
             /\ result'.call = "on_run"
             /\ result'.kind = "MayaNotRunningError"
             /\ UNCHANGED RunFields ]_vars

C8_Witness ==
    /\ result.call = "on_run" /\ result.kind = "MayaNotRunningError"
    /\ maya_client = "exited" /\ phase = "started"
    /\ ~is_rendering /\ pc = "idle"

(* C9: a recorded exception is never cleared, and an on_run that begins     *)
(* with an exception pending never returns normally.                        *)
C9_ExceptionSticky ==
    /\ [][ exc_info # NoExc => exc_info' # NoExc ]_vars
    /\ [](result.call = "on_run" /\ result.pending_at_call
            => result.kind \in {"Recorded", "ExitError", "MayaNotRunningError",
                                "ValidationError"})

C9_Witness ==
    /\ result.call = "on_run" /\ result.kind = "Recorded"
    /\ result.pending_at_call /\ result.exc # NoExc /\ result.alive

(* C10: a later error line does not replace a pending exception: once an    *)
(* exception is recorded, _exc_info keeps that value.                       *)
C10_FirstErrorKept ==
    [][ exc_info # NoExc => exc_info' = exc_info ]_vars

(* C11: once on_cleanup has pushed close to the front of the queue, the     *)
(* next action handed to the worker is close, whatever is still pending;   *)
(* no pending action is handed over before it.                              *)
C11_CloseDeliveredNext ==
    [][ (phase = "cleaned" /\ delivered' # delivered)
          => /\ Head(action_queue) = "close"
             /\ delivered' = Append(delivered, "close")
             /\ action_queue' = Tail(action_queue) ]_vars

C11_Witness ==
    /\ phase = "cleaned" /\ delivered # <<>>
    /\ delivered[Len(delivered)] = "close"
    /\ action_queue # <<>> /\ Head(action_queue) # "close"

WithoutClose(q) == SelectSeq(q, LAMBDA a : a # "close")

(* C12: the actions enqueued without front=True are handed to the worker   *)
(* in the order of their enqueueing, none twice and none skipped: what was  *)
(* handed over is a prefix of what was enqueued, and the rest is what the  *)
(* queue still holds, in the same order.                                    *)
C12_FifoDelivery ==
    LET d == WithoutClose(delivered) IN
    /\ Len(d) <= Len(enqueued)
    /\ d = SubSeq(enqueued, 1, Len(d))
    /\ WithoutClose(action_queue) = SubSeq(enqueued, Len(d) + 1, Len(enqueued))

C12_Witness ==
    /\ Len(delivered) >= 5 /\ delivered[5] = "start_render"
    /\ Len(enqueued) > Len(delivered)

InitKeySet == MAYA_INIT_KEYS

(* C13: for every valid init payload on_start enqueues renderer first,      *)
(* path_mapping second (its data map every rule's source path to a         *)
(* destination of a rule with that source path), then scene_file, then     *)
(* project_path, and after these only actions of recognized init keys.     *)
C13_InitOrder ==
    [][ (pc = "populate" /\ pc' # pc)
          => LET new == SubSeq(action_queue', Len(action_queue) + 1, Len(action_queue'))
                 rules == path_mapping_rules(init_data)
                 data == path_mapping_action_data(rules).path_mapping_rules
             IN /\ init_data.valid
                /\ Len(new) >= 4
                /\ SubSeq(new, 1, 4) = <<"renderer", "path_mapping", "scene_file",
                                         "project_path">>
                /\ \A i \in 5..Len(new) : new[i] \in InitKeySet
                /\ \A i \in 1..Len(rules) : rules[i].source_path \in DOMAIN data
                /\ \A src \in DOMAIN data :
                      \E i \in 1..Len(rules) : /\ rules[i].source_path = src
                                                /\ rules[i].destination_path = data[src] ]_vars

C13_Witness ==
    /\ pc = "start_client" /\ Len(action_queue) = 6
    /\ action_queue[1] = "renderer" /\ action_queue[5] = "camera"
    /\ Len(path_mapping_rules(init_data)) = 3

CleanupPcs == {"clean_w_running", "clean_w_timer", "clean_terminate", "clean_join"}

CancelFrame == <<init_data, phase, runs, server_thread, server_path, server_shutdown,
                 action_queue, enqueued, is_rendering, exc_info, performing_cleanup,
                 arnold_temp_dir, progress, result>>

(* C16: outside the controller thread's own steps, a worker that does not  *)
(* exist or is not running is left as it is (no terminate, nothing         *)
(* raised); a termination by on_cancel happens to a running worker only,   *)
(* ends it at once and enqueues nothing nor changes any other field.        *)
C16_CancelOnlyTerminatesLiveWorker ==
    /\ [][ (pc' = pc /\ ~maya_is_running(maya_client))
             => UNCHANGED <<maya_client, returncode, action_queue>> ]_vars
    /\ [][ (pc' = pc /\ returncode' = KilledCode /\ returncode # KilledCode)
             => /\ maya_is_running(maya_client)
                /\ maya_client' = "exited"
                /\ UNCHANGED CancelFrame ]_vars

C16_Witness ==
    /\ maya_client = "exited" /\ returncode = KilledCode
    /\ pc \in RunWaitPcs /\ is_rendering /\ Len(action_queue) > 0

(* C17: while an exception is pending and cleanup is not in progress, the  *)
(* classification of a render-complete or progress line changes neither    *)
(* the rendering flag nor the reported progress; while cleanup is in       *)
(* progress the handlers take effect even with an exception pending.        *)
C17_GuardedHandlers ==
    /\ [][ (exc_info # NoExc /\ ~performing_cleanup
            /\ (ClassifyStep(LineComplete) \/ ClassifyStep(LineProgress)
                   \/ ClassifyStep(LineWarnProg)))
             => UNCHANGED <<is_rendering, progress>> ]_vars
    /\ [][ (exc_info # NoExc /\ performing_cleanup /\ ClassifyStep(LineComplete))
             => (~is_rendering' /\ progress' = 100) ]_vars
    /\ [][ (exc_info # NoExc /\ performing_cleanup /\ ClassifyStep(LineWarnProg))
             => progress' = ProgressOf(LineWarnProg) ]_vars

C17_Witness ==
    /\ exc_info # NoExc /\ performing_cleanup /\ maya_is_running(maya_client)
    /\ pc \in CleanupPcs /\ ~is_rendering /\ progress = 100 /\ runs > 0
    /\ \E i \in 1..Len(action_queue) : action_queue[i] = "start_render"

(* C18: a read of _has_exception raises the pending exception itself       *)
(* exactly when one is recorded and cleanup is not in progress, and         *)
(* returns False in every other state: a poll of on_start or on_run ends   *)
(* the call with the recorded exception or goes on waiting, and during     *)
(* cleanup the guarded handlers run although an exception is pending.       *)
C18_AccessorRaisesOrFalse ==
    /\ [](LET read == has_exception(exc_info, performing_cleanup) IN
            /\ read.raised <=> (exc_info # NoExc /\ ~performing_cleanup)
            /\ read.raised => read.exc = exc_info
            /\ ~read.raised => read.value = FALSE)
    /\ [][ (pc \in {"start_w_exc", "run_w_exc"} /\ pc' # pc)
             => IF exc_info # NoExc /\ ~performing_cleanup
                THEN /\ pc' = "idle" /\ result'.kind = "Recorded"
                     /\ result'.exc = exc_info
                ELSE pc' \in {"start_w_len", "run_w_running"} ]_vars
    /\ [][ (performing_cleanup /\ is_rendering /\ ClassifyStep(LineComplete))
             => ~is_rendering' ]_vars

C18_Witness ==
    /\ result.call = "on_start" /\ result.kind = "Recorded"
    /\ result.exc = RuntimeErrorOf("_handle_vray_license_error", LineVray)
    /\ result.exc = exc_info /\ ~result.pending_at_call

(* C19: each adaptor owns its action queue: nothing enqueued through the   *)
(* first adaptor is in the queue a second adaptor of the same process       *)
(* observes, so the queue of a second adaptor that has enqueued nothing is  *)
(* empty.                                                                   *)
C19_QueueOwnedByInstance ==
    second_adaptor => action_queue_of("second") = <<>>

\* what ends the wait of on_run
RunWaitOver ==
    ~is_rendering \/ exc_info # NoExc \/ ~maya_is_running(maya_client)

(* C20: on_run has no deadline.  Its wait ends only when the rendering     *)
(* flag has been cleared by a render-complete line, an exception has been  *)
(* recorded or the worker has exited, and then on_run does end (returning  *)
(* or raising); while the worker is alive, the flag set and no exception   *)
(* recorded, no step of on_run leaves the wait, and no timer runs.          *)
C20_RunWaitsForWorker ==
    /\ [][ (pc \in RunWaitPcs /\ pc' \notin RunWaitPcs) => RunWaitOver ]_vars
    /\ [](pc \in RunWaitPcs => timeout_left = 0)
    /\ (pc \in RunWaitPcs /\ RunWaitOver) ~> (pc = "idle" /\ result.call = "on_run")

C20_Witness ==
    /\ pc = "run_w_exc" /\ is_rendering /\ exc_info = NoExc
    /\ maya_is_running(maya_client) /\ action_queue = <<>>
    /\ delivered # <<>> /\ delivered[Len(delivered)] = "start_render"

(* C21: on_start raises the socket RuntimeError exactly when the check     *)
(* after the wait of _wait_for_socket finds no published address; the wait  *)
(* is left only once the address is published or the server start timeout  *)
(* has run out, so the error follows a full timeout.  When it is raised no  *)
(* action has been enqueued and no worker process exists.  A poll that      *)
(* observes the published address ends the wait: it cannot go on waiting.   *)
C21_SocketWait ==
    /\ [][ (pc = "wait_socket" /\ pc' # pc)
             => (pc' = "socket_check" /\ (server_path \/ timeout_left = 0)) ]_vars
    /\ [](pc = "wait_socket" /\ server_path
            => /\ ENABLED (wait_for_socket_poll /\ pc' = "socket_check")
               /\ ~ENABLED (wait_for_socket_poll /\ pc' = "wait_socket"))
    /\ [][ (pc = "socket_check" /\ pc' # pc)
             => IF server_path
                THEN pc' = "populate"
                ELSE /\ pc' = "idle"
                     /\ result'.call = "on_start" /\ result'.kind = "SocketError"
                     /\ timeout_left = 0
                     /\ enqueued' = <<>> /\ action_queue' = <<>>
                     /\ maya_client' = "none" ]_vars
    /\ [](pc \in {"start_server_thread", "wait_socket", "socket_check"}
            => (enqueued = <<>> /\ action_queue = <<>> /\ maya_client = "none"))

C21_Witness ==
    /\ result.call = "on_start" /\ result.kind = "SocketError"
    /\ server_thread = "alive" /\ ~server_path
    /\ enqueued = <<>> /\ action_queue = <<>> /\ maya_client = "none"
    /\ pc = "idle" /\ phase = "started"

\* the step in which on_start is called
OnStartCalled == pc = "idle" /\ phase = "new" /\ phase' = "started"

(* C22: on_start called with init data that fail the schema validation      *)
(* raises the validation error in that very step and changes no field of   *)
(* the adaptor: no server thread, no enqueued action, no worker process,   *)
(* no progress report; and nothing of the kind exists afterwards either.    *)
C22_InvalidInitNoEffect ==
    /\ [][ (OnStartCalled /\ ~init_data.valid)
             => /\ pc' = "idle"
                /\ result'.call = "on_start"
                /\ result'.kind = "ValidationError"
                /\ UNCHANGED RunFields
                /\ UNCHANGED <<enqueued, delivered>> ]_vars
    /\ [](~init_data.valid
            => /\ server_thread = "none" /\ ~server_path
               /\ maya_client = "none"
               /\ enqueued = <<>> /\ WithoutClose(action_queue) = <<>>)
    /\ [](result.kind = "ValidationError" /\ result.call = "on_start"
            => ~init_data.valid)

C22_Witness ==
    /\ result.call = "on_start" /\ result.kind = "ValidationError"
    /\ ~init_data.valid /\ phase = "started" /\ pc = "idle"
    /\ server_thread = "none" /\ maya_client = "none"
    /\ action_queue = <<>> /\ progress = NoProgress

RunPcs == {"run_begin"} \cup RunWaitPcs

(* C23: on_run called while the worker is running with run data that fail  *)
(* the schema validation raises the validation error in that very step:    *)
(* the rendering flag is not set, no start_render is enqueued, the queue,  *)
(* the flag and every other field keep their values.  on_run never goes on *)
(* with invalid run data, and raises the validation error for no others.   *)
C23_InvalidRunDataNoEffect ==
    /\ [][ (/\ OnRunCalled /\ maya_is_running(maya_client)
            /\ \/ pc' = "idle" /\ result'.run_data = "invalid"
               \/ pc' = "run_begin" /\ run_data' = "invalid")
             => /\ pc' = "idle"
                /\ result'.call = "on_run"
                /\ result'.kind = "ValidationError"
                /\ UNCHANGED RunFields
                /\ UNCHANGED <<enqueued, delivered>> ]_vars
    /\ [](pc \in RunPcs => run_data = "valid")
    /\ [](result.call = "on_run" /\ result.kind = "ValidationError"
            => result.run_data = "invalid")

C23_Witness ==
    /\ result.call = "on_run" /\ result.kind = "ValidationError"
    /\ result.run_data = "invalid" /\ result.alive /\ ~result.rendering
    /\ maya_is_running(maya_client) /\ ~is_rendering /\ action_queue = <<>>
    /\ \A i \in 1..Len(enqueued) : enqueued[i] # "start_render"

FixedActionNames == {"renderer", "path_mapping", "scene_file", "project_path"}

(* C24: every action on_start enqueues is named renderer, path_mapping,    *)
(* scene_file, project_path or after a recognized init key; a key of the   *)
(* init data outside that set (strict_error_checking, version) becomes no  *)
(* action; every recognized key present in the init data yields exactly    *)
(* one action, whose data map that key to its value in the init data, and  *)
(* a recognized key that is absent yields none.                             *)
C24_OnlyRecognizedKeysForwarded ==
    [][ (pc = "populate" /\ pc' # pc)
          => LET new == SubSeq(action_queue', Len(action_queue) + 1, Len(action_queue'))
                 count(k) == Cardinality({ i \in 1..Len(new) : new[i] = k })
             IN /\ \A i \in 1..Len(new) : new[i] \in FixedActionNames \cup MAYA_INIT_KEYS
                /\ \A k \in InitKeys(init_data) \ (FixedActionNames \cup MAYA_INIT_KEYS) :
                      count(k) = 0
                /\ \A k \in MAYA_INIT_KEYS :
                      count(k) = IF k \in InitKeys(init_data) THEN 1 ELSE 0
                /\ \A k \in MAYA_INIT_KEYS \cap InitKeys(init_data) :
                      LET a == action_from_action_item(init_data, k)
                      IN /\ a.name = k
                         /\ DOMAIN a.data = {k}
                         /\ a.data[k] = init_value(init_data, k)
                /\ enqueued' = enqueued \o new ]_vars

C24_Witness ==
    /\ pc = "start_client"
    /\ {"strict_error_checking", "version", "camera", "error_on_arnold_license_fail"}
          \subseteq InitKeys(init_data)
    /\ Len(action_queue) = 6
    /\ action_queue[5] = "error_on_arnold_license_fail" /\ action_queue[6] = "camera"

(* C25: the Arnold side file is written (and ARNOLD_PATHMAP set) only by   *)
(* on_start, on its way to spawning the worker, only for the renderer      *)
(* arnold and never twice; when the worker process is spawned it has been  *)
(* written exactly once if the renderer is arnold, with its directory in    *)
(* place, and not at all otherwise; for another renderer no side file or    *)
(* directory ever exists.                                                   *)
C25_ArnoldPathmapOnceBeforeSpawn ==
    /\ [][ pathmap_writes' # pathmap_writes
             => /\ pc = "start_client" /\ init_data.renderer = "arnold"
                /\ pathmap_writes = 0 /\ pathmap_writes' = 1
                /\ arnold_temp_dir' /\ arnold_dir_on_disk'
                /\ maya_client = "none" /\ maya_client' = "none" ]_vars
    /\ [][ (maya_client = "none" /\ maya_client' # "none")
             => IF init_data.renderer = "arnold"
                THEN pathmap_writes = 1 /\ arnold_temp_dir /\ arnold_dir_on_disk
                ELSE pathmap_writes = 0 /\ ~arnold_temp_dir /\ ~arnold_dir_on_disk ]_vars
    /\ [](init_data.renderer # "arnold"
            => (pathmap_writes = 0 /\ ~arnold_temp_dir /\ ~arnold_dir_on_disk))
    /\ [][ (~arnold_dir_on_disk /\ arnold_dir_on_disk')
             => pathmap_writes' = pathmap_writes + 1 ]_vars

C25_Witness ==
    /\ init_data.renderer = "arnold" /\ pathmap_writes = 1
    /\ arnold_temp_dir /\ arnold_dir_on_disk
    /\ maya_is_running(maya_client) /\ pc \in StartWaitPcs

Slashed(p, q) ==
    /\ Len(q) = Len(p)
    /\ \A i \in 1..Len(p) : q[i] = IF p[i] \in {"\\", "/"} THEN "/" ELSE p[i]

(* C27: the document written to the side file has exactly one top-level    *)
(* key: linux, mac or windows, according to the platform of the host.  Its *)
(* value has one entry per source path of the rules, whatever their        *)
(* source_os: key and value are a rule's source and destination path with  *)
(* every backslash replaced by a forward slash and nothing else changed;   *)
(* where several rules share a source path the entry is the destination of *)
(* one of them.                                                             *)
C27_ArnoldPathmapDocument ==
    pathmap_writes = 1 =>
        LET doc == arnold_pathmap_file
            rules == mapping_rules
        IN /\ Cardinality(DOMAIN doc) = 1
           /\ DOMAIN doc \subseteq {"windows", "linux", "mac"}
           /\ sys_platform = "linux" => DOMAIN doc = {"linux"}
           /\ sys_platform = "darwin" => DOMAIN doc = {"mac"}
           /\ sys_platform = "win32" => DOMAIN doc = {"windows"}
           /\ \A os \in DOMAIN doc :
                 /\ \A i \in 1..Len(rules) :
                       \E k \in DOMAIN doc[os] :
                          /\ Slashed(rules[i].source_path, k)
                          /\ \E j \in 1..Len(rules) :
                                /\ Slashed(rules[j].source_path, k)
                                /\ Slashed(rules[j].destination_path, doc[os][k])
                          /\ (\A j \in 1..Len(rules) :
                                 Slashed(rules[j].source_path, k) => j = i)
                               => Slashed(rules[i].destination_path, doc[os][k])
                 /\ \A k \in DOMAIN doc[os] :
                       \E i \in 1..Len(rules) : Slashed(rules[i].source_path, k)

C27_Witness ==
    /\ pathmap_writes = 1 /\ sys_platform = "darwin" /\ Len(mapping_rules) = 2
    /\ mapping_rules[1] = Rule("windows", <<"\\", "\\">>, <<"c", "\\">>)
    /\ mapping_rules[2] = Rule("linux", <<"b">>, <<"/">>)
    /\ DOMAIN arnold_pathmap_file = {"mac"}
    /\ DOMAIN arnold_pathmap_file["mac"] = {<<"/", "/">>, <<"b">>}
    /\ arnold_pathmap_file["mac"][<<"/", "/">>] = <<"c", "/">>

\* the callbacks of a list
Registered(cbs) == { cbs[i] : i \in 1..Len(cbs) }

\* the lines that match the generic error pattern and no license pattern
GenericErrorLines ==
    { line \in HandlerLines :
        /\ Matches("error", line)
        /\ \A cb \in {"arnold_abort", "renderman_license", "vray_license", "license"} :
              ~Matches(cb, line) }

(* C28: the callback list the handler is built from holds the generic      *)
(* error callback exactly when strict_error_checking is set and the Arnold *)
(* abort callback exactly when error_on_arnold_license_fail is set, each   *)
(* flag independently of the other; its first entry is the render-complete *)
(* callback and its second the progress callback.  With strict checking    *)
(* off, a line that matches the generic error pattern (and no license      *)
(* pattern) leaves the recorded exception as it was.                        *)
C28_CallbackRegistry ==
    /\ [](regex_callbacks # <<>>
            => /\ ("error" \in Registered(regex_callbacks))
                     <=> init_data.strict_error_checking
               /\ ("arnold_abort" \in Registered(regex_callbacks))
                     <=> init_data.error_on_arnold_license_fail
               /\ Len(regex_callbacks) >= 2
               /\ regex_callbacks[1] = "complete"
               /\ regex_callbacks[2] = "progress"
               /\ \A i, j \in 1..Len(regex_callbacks) :
                     regex_callbacks[i] = regex_callbacks[j] => i = j)
    /\ [][ (/\ ~init_data.strict_error_checking
            /\ \E line \in GenericErrorLines : HandleLine(line))
             => exc_info' = exc_info ]_vars
    /\ [](~init_data.strict_error_checking
            => (exc_info.handler # "_handle_error" \/ exc_info.match = LineArnoldAbort))

C28_Witness ==
    /\ ~init_data.strict_error_checking /\ init_data.error_on_arnold_license_fail
    /\ "arnold_abort" \in Registered(regex_callbacks)
    /\ "error" \notin Registered(regex_callbacks)
    /\ progress = ProgressOf(LineWarnProg) /\ exc_info = NoExc

(* C29: every registered callback is tried on a line.  With strict error   *)
(* checking on and no exception pending, the classification of one line    *)
(* that matches a progress pattern and the generic error pattern reports   *)
(* the progress value of the line and records the exception of the error   *)
(* handler for that line; and whenever no exception is pending, a line has *)
(* the effect of every registered callback it matches.                      *)
C29_EveryCallbackTried ==
    /\ [][ (/\ init_data.strict_error_checking /\ exc_info = NoExc
            /\ Matches("progress", LineWarnProg) /\ Matches("error", LineWarnProg)
            /\ ClassifyStep(LineWarnProg))
             => /\ progress' = ProgressOf(LineWarnProg)
                /\ exc_info' = RuntimeErrorOf("_handle_error", LineWarnProg)
                /\ is_rendering' = is_rendering ]_vars
    /\ [][ \A line \in WorkerLines :
             (exc_info = NoExc /\ ClassifyStep(line))
               => /\ ("complete" \in Registered(regex_callbacks)
                         /\ Matches("complete", line)) => ~is_rendering'
                  /\ ("progress" \in Registered(regex_callbacks)
                         /\ Matches("progress", line)) => progress' = ProgressOf(line)
                  /\ (\E cb \in Registered(regex_callbacks) \ {"complete", "progress"} :
                         Matches(cb, line)) => exc_info' # NoExc ]_vars

C29_Witness ==
    /\ init_data.strict_error_checking /\ maya_is_running(maya_client)
    /\ pc \in RunWaitPcs /\ is_rendering
    /\ progress = ProgressOf(LineWarnProg)
    /\ exc_info = RuntimeErrorOf("_handle_error", LineWarnProg)

(* C30: on_run returns normally only if its wait ended because the          *)
(* rendering flag read false and the worker was alive at the check after    *)
(* the wait; during the wait the flag, set by this call, is cleared only by *)
(* classifying a completion marker, and that marker is the one written for  *)
(* this call's start_render (the n-th marker for the n-th on_run): a marker *)
(* of an earlier on_run never ends a later one.                             *)
C30_RunCompletesOnOwnMarker ==
    /\ [](result.call = "on_run" /\ result.kind = "ok"
            => /\ result.loop_exit = "not_rendering"
               /\ result.alive
               /\ ~result.rendering)
    /\ [][ (pc = "run_post" /\ pc' = "idle" /\ result'.kind = "ok")
              => (runs > 0 /\ completed = runs /\ renders_started(delivered) = runs)
       ]_vars
    /\ [][ (pc \in RunWaitPcs /\ is_rendering /\ ~is_rendering')
              => (ClassifyStep(LineComplete) /\ completed' = runs)
       ]_vars

\* the second on_run of a session returned normally on its own marker
C30_Witness ==
    /\ result.call = "on_run" /\ result.kind = "ok"
    /\ pc = "idle"
    /\ runs = 2 /\ completed = 2

(* C31: an on_run called while a worker-reported exception is pending       *)
(* enqueues nothing: no step of that call lengthens the action queue or     *)
(* adds to the actions enqueued.                                            *)
C31_NoEnqueueWhilePending ==
    [][ (pc \in RunPcs /\ call_exc)
          => (enqueued' = enqueued /\ Len(action_queue') <= Len(action_queue))
      ]_vars

RunCallPcs == RunPcs \cup {"run_post"}

(* C32 as stated: once the worker was terminated by on_cancel during an     *)
(* on_run, that on_run ends raising the RuntimeError that reports the       *)
(* worker's exit code.                                                      *)
C32_CancelEndsRunWithExitCode ==
    (pc \in RunCallPcs /\ returncode = KilledCode)
        ~> (pc = "idle" /\ result.call = "on_run"
               /\ result.kind = "ExitError" /\ result.info = KilledCode)

(* C32 amended: while on_run waits on a live worker on_cancel can act at    *)
(* once, whatever the rendering flag: it terminates the worker in one step. *)
(* on_run then stops waiting and raises: the RuntimeError reporting the     *)
(* worker's exit code, also when the completion marker had already ended    *)
(* the wait, or, when its poll finds an exception recorded by the output    *)
(* handlers, that exception.                                                *)
C32_CancelEndsRun ==
    /\ [](pc \in RunCallPcs /\ maya_is_running(maya_client)
            => ENABLED (on_cancel /\ maya_client' = "exited"
                           /\ returncode' = KilledCode /\ pc' = pc))
    /\ [][ (pc = "run_post" /\ pc' = "idle" /\ ~maya_is_running(maya_client))
              => (result'.kind = "ExitError" /\ result'.info = returncode) ]_vars
    /\ (pc \in RunCallPcs /\ returncode = KilledCode)
          ~> (pc = "idle" /\ result.call = "on_run"
                 /\ \/ result.kind = "ExitError" /\ result.info = KilledCode
                    \/ /\ result.kind = "Recorded" /\ result.exc # NoExc
                       /\ result.loop_exit = "none")

\* on_run raised the exit-code error of a worker that was terminated after
\* the completion marker had cleared the rendering flag
C32_Witness ==
    /\ pc = "idle" /\ result.call = "on_run" /\ result.kind = "ExitError"
    /\ result.info = KilledCode /\ result.loop_exit = "not_rendering"
    /\ ~result.rendering /\ completed = runs

(* C33: the worker process is created only when the server has published    *)
(* its address, the address has been written to MAYA_ADAPTOR_SERVER_PATH    *)
(* and the queue holds every initialization action of the payload, none     *)
(* handed out yet; a worker never exists without the address.               *)
C33_SpawnAfterAddressAndActions ==
    /\ [][ (maya_client = "none" /\ maya_client' # "none")
              => /\ server_path /\ env_server_path
                 /\ action_queue # <<>>
                 /\ \E init_keys \in init_key_orders(init_data) :
                       action_queue = populate_action_queue(<<>>, init_data, init_keys)
                 /\ enqueued = action_queue /\ delivered = <<>>
       ]_vars
    /\ [](maya_client # "none" => (server_path /\ env_server_path))

\* the worker has just been created, before it asked for its first action
C33_Witness ==
    /\ pc = "start_w_running" /\ maya_client = "running"
    /\ env_server_path /\ server_path
    /\ delivered = <<>> /\ Len(action_queue) > 4

(* C34: every action the client is handed has a handler registered in the   *)
(* client's action table at that moment; the first action enqueued is       *)
(* renderer, and nothing but renderer (or the close put in front by         *)
(* on_cleanup) is handed out before the render handler's table is installed.*)
C34_HandlerRegisteredAtDispatch ==
    /\ [][ \A a \in MAYA_INIT_KEYS \cup {"renderer", "path_mapping", "scene_file",
                                         "project_path", "start_render", "close"} :
              delivered' = Append(delivered, a)
                 => a \in client_actions(delivered, init_data) ]_vars
    /\ [](enqueued # <<>> => enqueued[1] = "renderer")
    /\ [](delivered # <<>> => delivered[1] \in {"renderer", "close"})

(* C35: _populate_action_queue enqueues scene_file and project_path exactly *)
(* for those of the two keys the init data holds, and a payload lacking one *)
(* still gets renderer, path_mapping and its recognized optional keys       *)
(* enqueued, on_start going on to start the worker.                         *)
C35_FirstKeysOnlyWhenPresent ==
    [][ (pc = "populate" /\ pc' # pc)
          => LET names == {enqueued'[i] : i \in 1..Len(enqueued')} IN
             /\ \A k \in {"scene_file", "project_path"} :
                   k \in names <=> k \in InitKeys(init_data)
             /\ {"renderer", "path_mapping"} \subseteq names
             /\ (MAYA_INIT_KEYS \cap InitKeys(init_data)) \subseteq names
             /\ pc' = "start_client"
      ]_vars

(* C36: _performing_cleanup is true only while on_cleanup is executing; in  *)
(* every state outside an on_cleanup call, also after an on_cleanup that    *)
(* ended by raising, it is false, so that _has_exception raises a pending   *)
(* exception for every other entry point.                                   *)
C36_CleanupFlagOnlyDuringCleanup ==
    /\ pc \notin CleanupPcs => ~performing_cleanup
    /\ (pc \notin CleanupPcs /\ exc_info # NoExc)
          => has_exception_raises(exc_info, performing_cleanup)

(* C38: for every flat list [s1, d1, ..., sn, dn] the host returns, items() *)
(* is the list of the n pairs <<si, di>> in order, which is                 *)
(* zip(keys(), values()).                                                   *)
C38_ItemsArePairs ==
    dir_map.called =>
        LET all_mappings == dir_map.all_mappings
            n == Len(all_mappings) \div 2
        IN /\ dir_map.items = [i \in 1..n |-> <<all_mappings[2 * i - 1], all_mappings[2 * i]>>]
           /\ dir_map.items = py_zip(dir_map_keys(all_mappings),
                                     dir_map_values(all_mappings))

\* the positions at which an event occurs in a trace
Positions(events, e) == { k \in 1..Len(events) : events[k] = e }

\* the tests a start_render makes
Tests(handler) ==
    { start_render_stmts(handler)[k] : k \in 1..Len(start_render_stmts(handler)) }
        \ {"render", "marker"}

(* C37: in every handler variant start_render writes the completion marker  *)
(* only as the last thing it does, right after the render call returned;    *)
(* when one of its tests fails (frame, camera, region, and the plug-in and  *)
(* settings tests) it raises without a render call and without a marker,    *)
(* and it writes no marker either when the render call itself raises.       *)
C37_MarkerLastAndNoneOnFailure ==
    client_proc.stage = "rendered" =>
        LET call == client_proc.call
            events == call.events
            n == Len(events)
        IN /\ \A k \in Positions(events, "marker") :
                  k = n /\ k > 1 /\ events[k - 1] = "render_returned"
           /\ Cardinality(Positions(events, "render_call")) <= 1
           /\ call.raised => Positions(events, "marker") = {}
           /\ (call.raised /\ call.cause # "render") =>
                  Positions(events, "render_call") = {}
           /\ \A stmt \in Tests(client_proc.handler) :
                  statement_raises(stmt, client_proc.data) =>
                      /\ call.raised
                      /\ events = <<>>
           /\ ~call.raised => events = <<"render_call", "render_returned", "marker">>

\* an Arnold render of a full region returned and the marker followed; a
\* render of a partially given region raised before the render call
C37_Witness ==
    /\ client_proc.stage = "rendered"
    /\ client_proc.handler = "ArnoldHandler"
    /\ client_proc.data.region = "full"
    /\ client_proc.call = [events |-> <<"render_call", "render_returned", "marker">>,
                           raised |-> FALSE, cause |-> "none"]

(* C39: main polls only when the server-path variable is set and the path   *)
(* it names exists; otherwise it raises OSError and neither constructs the  *)
(* client nor polls.                                                        *)
C39_PollOnlyWithExistingServerPath ==
    client_proc.stage \notin {"none", "main"} =>
        LET usable == client_proc.env = "set" /\ client_proc.path_exists
        IN /\ client_proc.polled => usable
           /\ usable => (client_proc.constructed /\ client_proc.polled
                            /\ client_proc.stage # "OSError")
           /\ ~usable => /\ client_proc.stage = "OSError"
                         /\ ~client_proc.constructed
                         /\ ~client_proc.polled

\* main raised for a path that is set but does not exist
C39_Witness ==
    /\ client_proc.stage = "OSError"
    /\ client_proc.env = "set"
    /\ ~client_proc.path_exists
    /\ ~client_proc.constructed

====
